---- MODULE Spec2Model ----
(***************************************************************************)
(* NomiSafe backend: the policy upload / AI extraction / verification      *)
(* pipeline of src/policies (views.py, ai_extractor.py, models.py).        *)
(*                                                                         *)
(* The database is one variable, db, a record of tables keyed by policy    *)
(* id.  The background extraction thread of a policy is job[p], stepped at *)
(* every blocking call to the external model and at the statements of its  *)
(* final transaction.  A verification request is two steps: the read of    *)
(* the Policy row with the status check, and the atomic transaction with   *)
(* the response.  A detail request is one step per query it sends; dreq    *)
(* holds what it has loaded so far.  otp holds the OTP login of           *)
(* src/accounts (views_otp.py): the OTP and User tables and the verify     *)
(* requests being served.                                                  *)
(***************************************************************************)
EXTENDS Integers, Sequences, FiniteSets, TLC

VARIABLES db, job, vreq, dreq, resp, commits, rtext, rout, otp

vars == <<db, job, vreq, dreq, resp, commits, rtext, rout, otp>>

\* Python's None / SQL NULL.
NULL == "NULL"

Users == {"u1", "u2"}
PolicyIds == {1}

\* Sizes (MB) of the documents that get uploaded.
DocSizes == {5, 25}

\* ai_extractor.py:70   if file_size_mb > 20
MaxFileSizeMB == 20
\* ai_extractor.py:75   max_retries = 5
max_retries == 5
\* ai_extractor.py:76   retry_delay = 3
InitialRetryDelay == 3
\* ai_extractor.py:111  min(retry_delay * 2, 30)
MaxRetryDelay == 30
\* views.py:67          error_message[:1000]
ErrorLimit == 1000

Min(a, b) == IF a < b THEN a ELSE b


(***************************************************************************)
(* Text.  A Python str is a sequence of one-character strings; the line    *)
(* feed, the double quote and the backtick are written LF, DQ and BT.       *)
(***************************************************************************)
LF == "LF"
DQ == "DQ"
BT == "BT"
Whitespace == {" ", LF}

LowerCase == <<"a","b","c","d","e","f","g","h","i","j","k","l","m",
               "n","o","p","q","r","s","t","u","v","w","x","y","z">>
UpperCase == <<"A","B","C","D","E","F","G","H","I","J","K","L","M",
               "N","O","P","Q","R","S","T","U","V","W","X","Y","Z">>

\* str.upper()
Upper(s) ==
    [i \in 1..Len(s) |->
        IF \E k \in 1..26 : LowerCase[k] = s[i]
        THEN UpperCase[CHOOSE k \in 1..26 : LowerCase[k] = s[i]]
        ELSE s[i]]

\* str.lower()
Lower(s) ==
    [i \in 1..Len(s) |->
        IF \E k \in 1..26 : UpperCase[k] = s[i]
        THEN LowerCase[CHOOSE k \in 1..26 : UpperCase[k] = s[i]]
        ELSE s[i]]

\* sub in s
HasSub(s, sub) ==
    \E i \in 1..(Len(s) - Len(sub) + 1) : SubSeq(s, i, i + Len(sub) - 1) = sub

RECURSIVE LStrip(_)
LStrip(s) ==
    IF s # <<>> /\ Head(s) \in Whitespace THEN LStrip(Tail(s)) ELSE s

RECURSIVE RStrip(_)
RStrip(s) ==
    IF s # <<>> /\ s[Len(s)] \in Whitespace
    THEN RStrip(SubSeq(s, 1, Len(s) - 1))
    ELSE s

\* str.strip()
Strip(s) == RStrip(LStrip(s))

\* str.startswith(pre), str.endswith(suf)
StartsWith(s, pre) == Len(s) >= Len(pre) /\ SubSeq(s, 1, Len(pre)) = pre
EndsWith(s, suf) ==
    Len(s) >= Len(suf) /\ SubSeq(s, Len(s) - Len(suf) + 1, Len(s)) = suf

\* c in s
Contains(s, c) == \E i \in 1..Len(s) : s[i] = c

\* s.split(c, 1)[1]
AfterFirst(s, c) ==
    LET i == CHOOSE k \in 1..Len(s) :
                 s[k] = c /\ \A j \in 1..(k - 1) : s[j] # c
    IN SubSeq(s, i + 1, Len(s))

\* s[n:]
DropFirst(s, n) == SubSeq(s, Min(n, Len(s)) + 1, Len(s))
\* s[:-n]
DropLast(s, n) == SubSeq(s, 1, Len(s) - Min(n, Len(s)))

wVALID == <<"V","A","L","I","D">>
wINVALID == <<"I","N","V","A","L","I","D">>
wLIFE == <<"L","I","F","E">>
wHEALTH == <<"H","E","A","L","T","H">>
wMOTOR == <<"M","O","T","O","R">>
wOTHER == <<"O","T","H","E","R">>
wFence == <<BT, BT, BT>>
wFenceJson == <<BT, BT, BT, "j", "s", "o", "n">>

(***************************************************************************)
(* Document Classifier: the two interpretations of the model's reply.      *)
(***************************************************************************)
\* ai_extractor.py:158  the reason used when the reply holds no ':'
DefaultReason ==
    <<"T", "h", "i", "s", " ", "d", "o", "c", "u", "m", "e", "n", "t", " ",
      "i", "s", " ", "n", "o", "t", " ", "a", "n", " ", "i", "n", "s", "u",
      "r", "a", "n", "c", "e", " ", "p", "o", "l", "i", "c", "y">>

\* ai_extractor.py:152-162  the reply of the validity query, interpreted
_validate_insurance_document(text) ==
    LET result == Strip(text) IN
    IF StartsWith(Upper(result), wVALID)
    THEN [is_valid |-> TRUE, kind |-> "Valid", reason |-> <<>>]
    ELSE IF StartsWith(Upper(result), wINVALID)
    THEN [is_valid |-> FALSE, kind |-> "InvalidDocument",
          reason |-> IF Contains(result, ":")
                     THEN Strip(AfterFirst(result, ":"))
                     ELSE DefaultReason]
    ELSE [is_valid |-> FALSE, kind |-> "Unverifiable", reason |-> <<>>]

SupportedTypes == {wLIFE, wHEALTH, wMOTOR}

\* ai_extractor.py:179-184  the reply of the type query, interpreted
_identify_insurance_type(text) ==
    LET insurance_type == Upper(Strip(text)) IN
    IF insurance_type \notin SupportedTypes THEN wOTHER ELSE insurance_type

(***************************************************************************)
(* json.loads: a recursive-descent reader of objects, arrays, strings,     *)
(* integers and null.  A value is [t, v]; an object's v is its sequence of *)
(* <<key, value>> pairs in insertion order, a repeated key keeping its     *)
(* place and taking the last value, as a Python dict does.                 *)
(***************************************************************************)
Digits == {"1", "2", "3"}
wNull == <<"n", "u", "l", "l">>

JNull == [t |-> "null", v |-> <<>>]
JNum(d) == [t |-> "num", v |-> d]
JStr(c) == [t |-> "str", v |-> c]
JArr(e) == [t |-> "arr", v |-> e]
JObj(m) == [t |-> "obj", v |-> m]

ScanFail == [ok |-> FALSE, next |-> 0, val |-> JNull]
ScanOk(n, val) == [ok |-> TRUE, next |-> n, val |-> val]

\* d[k] = v
DictSet(m, k, v) ==
    IF \E i \in 1..Len(m) : m[i][1] = k
    THEN [i \in 1..Len(m) |-> IF m[i][1] = k THEN <<k, v>> ELSE m[i]]
    ELSE Append(m, <<k, v>>)

RECURSIVE SkipWS(_, _)
SkipWS(s, i) ==
    IF i <= Len(s) /\ s[i] \in Whitespace THEN SkipWS(s, i + 1) ELSE i

At(s, i, c) == i <= Len(s) /\ s[i] = c

\* a string literal starting at s[i] = DQ; a raw line feed inside is an error
ScanString(s, i) ==
    IF \E j \in (i + 1)..Len(s) : s[j] = DQ
    THEN LET j == CHOOSE k \in (i + 1)..Len(s) :
                      s[k] = DQ /\ \A q \in (i + 1)..(k - 1) : s[q] # DQ
             body == SubSeq(s, i + 1, j - 1)
         IN IF Contains(body, LF) THEN ScanFail ELSE ScanOk(j + 1, JStr(body))
    ELSE ScanFail

RECURSIVE DigitsEnd(_, _)
DigitsEnd(s, i) ==
    IF i <= Len(s) /\ s[i] \in Digits THEN DigitsEnd(s, i + 1) ELSE i

ScanNumber(s, i) ==
    LET e == DigitsEnd(s, i) IN ScanOk(e, JNum(SubSeq(s, i, e - 1)))

RECURSIVE ScanValue(_, _)
RECURSIVE ScanMembers(_, _, _)
RECURSIVE ScanElements(_, _, _)

ScanValue(s, i) ==
    IF i > Len(s) THEN ScanFail
    ELSE IF s[i] = "{" THEN
        LET j == SkipWS(s, i + 1) IN
        IF At(s, j, "}") THEN ScanOk(j + 1, JObj(<<>>))
        ELSE ScanMembers(s, j, <<>>)
    ELSE IF s[i] = "[" THEN
        LET j == SkipWS(s, i + 1) IN
        IF At(s, j, "]") THEN ScanOk(j + 1, JArr(<<>>))
        ELSE ScanElements(s, j, <<>>)
    ELSE IF s[i] = DQ THEN ScanString(s, i)
    ELSE IF s[i] \in Digits THEN ScanNumber(s, i)
    ELSE IF StartsWith(SubSeq(s, i, Len(s)), wNull) THEN ScanOk(i + 4, JNull)
    ELSE ScanFail

\* "key" : value  ( , "key" : value )*  }
ScanMembers(s, i, acc) ==
    IF ~At(s, i, DQ) THEN ScanFail
    ELSE LET k == ScanString(s, i) IN
    IF ~k.ok THEN ScanFail
    ELSE LET c == SkipWS(s, k.next) IN
    IF ~At(s, c, ":") THEN ScanFail
    ELSE LET v == ScanValue(s, SkipWS(s, c + 1)) IN
    IF ~v.ok THEN ScanFail
    ELSE LET e == SkipWS(s, v.next)
             m == DictSet(acc, k.val.v, v.val)
         IN IF At(s, e, "}") THEN ScanOk(e + 1, JObj(m))
            ELSE IF At(s, e, ",") THEN ScanMembers(s, SkipWS(s, e + 1), m)
            ELSE ScanFail

\* value ( , value )*  ]
ScanElements(s, i, acc) ==
    LET v == ScanValue(s, i) IN
    IF ~v.ok THEN ScanFail
    ELSE LET e == SkipWS(s, v.next)
             a == Append(acc, v.val)
         IN IF At(s, e, "]") THEN ScanOk(e + 1, JArr(a))
            ELSE IF At(s, e, ",") THEN ScanElements(s, SkipWS(s, e + 1), a)
            ELSE ScanFail

\* json.loads(text): the whole text is one value between optional whitespace
json_loads(text) ==
    LET r == ScanValue(text, SkipWS(text, 1)) IN
    IF r.ok /\ SkipWS(text, r.next) = Len(text) + 1
    THEN [ok |-> TRUE, val |-> r.val]
    ELSE [ok |-> FALSE, val |-> JNull]

(***************************************************************************)
(* Response Parser                                                         *)
(***************************************************************************)
\* a cleaning that leaves trailing commas in place
KeepCommas(s) == s
\* ai_extractor.py:341  re.sub(r',\s*([}\]])', r'\1', clean_text)
RECURSIVE SubTrailingCommas(_)
SubTrailingCommas(s) ==
    IF s = <<>> THEN <<>>
    ELSE IF Head(s) = ","
    THEN LET rest == LStrip(Tail(s)) IN
         IF rest # <<>> /\ Head(rest) \in {"}", "]"}
         THEN <<Head(rest)>> \o SubTrailingCommas(Tail(rest))
         ELSE <<",">> \o SubTrailingCommas(Tail(s))
    ELSE <<Head(s)>> \o SubTrailingCommas(Tail(s))

\* ai_extractor.py:328-341  the text handed to the second json.loads
CleanText(response_text) ==
    LET t0 == Strip(response_text)
        t1 == IF StartsWith(t0, wFenceJson) THEN DropFirst(t0, 7)
              ELSE IF StartsWith(t0, wFence) THEN DropFirst(t0, 3)
              ELSE t0
        t2 == IF EndsWith(t1, wFence) THEN DropLast(t1, 3) ELSE t1
    IN SubTrailingCommas(Strip(t2))

\* ai_extractor.py:316-349  the parsed value, or the ValueError raised
_parse_json_response(response_text) ==
    LET first == json_loads(response_text) IN
    IF first.ok THEN [ok |-> TRUE, val |-> first.val]
    ELSE LET second == json_loads(CleanText(response_text)) IN
         IF second.ok THEN [ok |-> TRUE, val |-> second.val]
         ELSE [ok |-> FALSE, val |-> JNull]

(***************************************************************************)
(* Replies of the external model that the runs below draw from.            *)
(***************************************************************************)
jA1 == <<"{", DQ, "a", DQ, ":", "1", "}">>
jA1c == <<"{", DQ, "a", DQ, ":", "1", ",", "}">>
jArrC == <<"[", "1", ",", "2", ",", "]">>
jNot == <<"n", "o", "t", " ", "j", "s", "o", "n", " ", "a", "t", " ", "a", "l", "l">>
pJson == <<BT, BT, BT, "j", "s", "o", "n", LF>>
sFence == <<LF, BT, BT, BT>>

\* replies to a schema-extraction query: a prefix, a body, a suffix
JsonReplies ==
    {p \o b \o s :
        p \in {<<>>, pJson, <<BT, BT, BT, LF>>,
               <<BT, BT, BT, "j", "s", "o", "n">>,
               <<LF, " ", BT, BT, BT, "j", "s", "o", "n", LF>>},
        b \in {jA1, jA1c, jArrC, jNot, <<>>, <<"1", "2">>,
               <<"{", DQ, "a", DQ, ":", "[", "1", ",", "2", ",", "]", ",", "}">>,
               <<"{", " ", DQ, "a", DQ, " ", ":", " ", "1", " ", ",", " ", "}">>,
               <<"{", DQ, "a", DQ, ":", DQ, "x", ",", " ", "}", DQ, "}">>,
               <<"{", DQ, "a", DQ, ":", DQ, "x", ",", "]", DQ, ",", "}">>,
               <<"{", DQ, "a", DQ, ":", "1">>,
               <<"{", DQ, "a", DQ, ":", "1", ",", ",", "}">>,
               <<"{", DQ, "a", DQ, ":", "1", ",", DQ, "a", DQ, ":", "2", "}">>,
               <<"{", DQ, "a", DQ, ":", "n", "u", "l", "l", "}">>},
        s \in {<<>>, sFence, <<BT, BT, BT>>, <<LF, BT, BT, BT, LF>>,
               <<" ", "o", "k">>}}

vIN == <<"I", "N">>
vReason == <<":", " ", "a", " ", "b", "i", "l", "l">>
vATION == <<"A", "T", "I", "O", "N", " ", "u", "n", "c", "l", "e", "a", "r">>
vMaybe == <<"m", "a", "y", "b", "e">>

\* replies to the validity query: a prefix, VALID in either case, a suffix
ValidityReplies ==
    {p \o c \o s :
        p \in {<<>>, <<" ">>, vIN, <<"i", "n">>},
        c \in {wVALID, <<"v", "a", "l", "i", "d">>},
        s \in {<<>>, <<LF>>, vReason, <<":", "a", ":", "b", LF>>, vATION,
               <<".">>}}
    \cup {<<>>, vMaybe, <<"Y", "E", "S">>}

tHealthPadded == <<" ", "H", "E", "A", "L", "T", "H", LF>>
tCar == <<"C", "A", "R">>

\* replies to the type query
TypeReplies ==
    {wLIFE, wHEALTH, wMOTOR, wOTHER, tHealthPadded, tCar, <<>>,
     <<"l", "i", "f", "e">>, <<"L", "I", "F", "E", " ", "I", "N", "S">>}

NoResult == [op |-> "none", res |-> [ok |-> FALSE]]

(***************************************************************************)
(* The database (policies/models.py).  An optional row is <<>> or <<row>>. *)
(***************************************************************************)
None == <<>>
Some(x) == <<x>>

\* models.py:54  ai_extraction_error; [kind, detail, len] stands for a text
NoError == [kind |-> NULL, detail |-> <<>>, len |-> 0]
Message(kind, detail, len) == [kind |-> kind, detail |-> detail, len |-> len]

\* models.py:17-64  a new Policy row with the model's defaults
Policy(user, document) ==
    [user |-> user, document |-> document,
     insurance_type |-> NULL, policy_number |-> NULL, insurer_name |-> NULL,
     ai_extraction_status |-> "PENDING", ai_extracted_at |-> NULL,
     ai_extraction_error |-> NoError,
     is_verified_by_user |-> FALSE, verified_at |-> NULL,
     is_processed |-> FALSE, is_active |-> TRUE]

\* MotorInsuranceDetails, one-to-one with Policy (imported at views.py:325;
\* its model class is described in the specification, section 3)
MotorInsuranceDetailsTable == [p \in PolicyIds |-> None]

\* the empty schema
EmptyDb ==
    [policy |-> [p \in PolicyIds |-> None],
     extracted_document |-> [p \in PolicyIds |-> None],
     coverage |-> [p \in PolicyIds |-> None],
     nominees |-> [p \in PolicyIds |-> <<>>],
     benefits |-> [p \in PolicyIds |-> <<>>],
     exclusions |-> [p \in PolicyIds |-> <<>>],
     health_details |-> [p \in PolicyIds |-> None],
     covered_members |-> [p \in PolicyIds |-> <<>>],
     motor_details |-> MotorInsuranceDetailsTable]

Exists(d, p) == d.policy[p] # None
Row(d, p) == d.policy[p][1]
Status(d, p) == Row(d, p).ai_extraction_status

\* a lookup by id alone
OwnedByAnyone(d, u, p) == Exists(d, p)
\* Policy.objects.get(id=p, user=u) finds a row
Owned(d, u, p) == Exists(d, p) /\ Row(d, p).user = u

\* a save that writes the named columns and the defaults of all others
SaveDefaults(d, p, cols) ==
    [d EXCEPT !.policy[p] =
        Some([f \in DOMAIN Row(d, p) |->
                 IF f \in DOMAIN cols THEN cols[f]
                 ELSE Policy(Row(d, p).user, Row(d, p).document)[f]])]
\* policy.save(update_fields=[...]): only the named columns are written
SaveFields(d, p, cols) ==
    [d EXCEPT !.policy[p] =
        Some([f \in DOMAIN Row(d, p) |->
                 IF f \in DOMAIN cols THEN cols[f] ELSE Row(d, p)[f]])]

\* policy.save(): every column is written from the in-memory instance
SaveInstance(d, p, instance) == [d EXCEPT !.policy[p] = Some(instance)]

(***************************************************************************)
(* Verification Committer (views.py, PolicyVerifyView).  A request body is *)
(* a record whose domain is the set of keys it holds.  The transaction is  *)
(* threaded through the steps as st = [ok, db, policy]: ok is FALSE once   *)
(* a step has raised, db holds the writes made so far inside the           *)
(* transaction and policy is the in-memory Policy instance.                *)
(***************************************************************************)
Has(d, k) == k \in DOMAIN d
\* d.get(k, default)
Get(d, k, default) == IF k \in DOMAIN d THEN d[k] ELSE default
\* the truth value of a str or None
Truthy(v) == v \notin {NULL, ""}
\* `k in data and data[k]` for a list value
HasItems(d, k) == Has(d, k) /\ d[k] # <<>>

\* strings that Decimal(str(value)) accepts
DecimalStrings == {"500000", "12000", "100", "60", "34"}
\* strings that strptime(date_str, '%Y-%m-%d') accepts
ISODates == {"2030-01-01"}

\* views.py:353-360
_to_decimal(value) ==
    IF value = NULL \/ value = "" THEN NULL
    ELSE IF value \in DecimalStrings THEN value
    ELSE NULL

\* views.py:362-369
_parse_date(date_str) ==
    IF ~Truthy(date_str) \/ date_str = "null" THEN NULL
    ELSE IF date_str \in ISODates THEN date_str
    ELSE NULL

\* an exception leaves the block it is raised in
Raise(st) == [st EXCEPT !.ok = FALSE]

\* Model.objects.create(policy=policy, ...) on a many-to-one table
Insert(st, table, p, row) ==
    [st EXCEPT !.db[table][p] = Append(@, row)]
\* a delete that removes nothing
DeleteNone(st, table, p) == st
\* Model.objects.filter(policy=policy).delete()
DeleteAll(st, table, p) == [st EXCEPT !.db[table][p] = <<>>]
\* Model.objects.update_or_create(policy=policy, defaults=row)
Upsert(st, table, p, row) == [st EXCEPT !.db[table][p] = Some(row)]

\* views.py:216-220
SaveBasicInfo(st, p, data) ==
    LET policy == [st.policy EXCEPT
                      !.insurance_type = Get(data, "insurance_type", NULL),
                      !.policy_number = Get(data, "policy_number", NULL),
                      !.insurer_name = Get(data, "insurer_name", NULL)]
    IN [st EXCEPT !.policy = policy, !.db = SaveInstance(st.db, p, policy)]

\* views.py:222-236
SaveCoverage(st, p, data) ==
    IF ~st.ok THEN st
    ELSE LET coverage_data == Get(data, "coverage", <<>>) IN
    Upsert(st, "coverage", p,
        [sum_assured |-> _to_decimal(Get(coverage_data, "sum_assured", NULL)),
         premium_amount |->
             _to_decimal(Get(coverage_data, "premium_amount", NULL)),
         premium_frequency |-> Get(coverage_data, "premium_frequency", NULL),
         end_date |-> _parse_date(Get(coverage_data, "end_date", NULL)),
         maturity_date |->
             _parse_date(Get(coverage_data, "maturity_date", NULL))])

\* views.py:241-250  the loop over data['nominees']; allocation_percentage
\* is NOT NULL (models.py:150-155)
RECURSIVE CreateNominees(_, _, _)
CreateNominees(st, p, entries) ==
    IF ~st.ok \/ entries = <<>> THEN st
    ELSE LET nominee_data == Head(entries)
             row == [name |-> Get(nominee_data, "name", NULL),
                     relationship |-> Get(nominee_data, "relationship", NULL),
                     allocation_percentage |-> _to_decimal(
                         Get(nominee_data, "allocation_percentage", "100"))]
         IN IF ~Truthy(row.name) THEN CreateNominees(st, p, Tail(entries))
            ELSE IF row.allocation_percentage = NULL THEN Raise(st)
            ELSE CreateNominees(Insert(st, "nominees", p, row), p,
                                Tail(entries))

\* views.py:238-250
SaveNominees(st, p, data) ==
    IF ~st.ok THEN st
    ELSE IF HasItems(data, "nominees")
    THEN CreateNominees(DeleteAll(st, "nominees", p), p, data.nominees)
    ELSE st

\* views.py:255-267  the loop over data['benefits']; benefit_type is
\* NOT NULL (models.py:181)
RECURSIVE CreateBenefits(_, _, _)
CreateBenefits(st, p, entries) ==
    IF ~st.ok \/ entries = <<>> THEN st
    ELSE LET benefit_data == Head(entries)
             row == [benefit_type |-> Get(benefit_data, "benefit_type", "BASE"),
                     name |-> Get(benefit_data, "name", NULL),
                     description |-> Get(benefit_data, "description", NULL),
                     coverage_amount |-> _to_decimal(
                         Get(benefit_data, "coverage_amount", NULL))]
         IN IF ~Truthy(row.name) THEN CreateBenefits(st, p, Tail(entries))
            ELSE IF row.benefit_type = NULL THEN Raise(st)
            ELSE CreateBenefits(Insert(st, "benefits", p, row), p,
                                Tail(entries))

\* views.py:252-267
SaveBenefits(st, p, data) ==
    IF ~st.ok THEN st
    ELSE IF HasItems(data, "benefits")
    THEN CreateBenefits(DeleteAll(st, "benefits", p), p, data.benefits)
    ELSE st

\* views.py:272-282  the loop over data['exclusions']; description is
\* NOT NULL (models.py:203)
RECURSIVE CreateExclusions(_, _, _)
CreateExclusions(st, p, entries) ==
    IF ~st.ok \/ entries = <<>> THEN st
    ELSE LET exclusion_data == Head(entries)
             row == [title |-> Get(exclusion_data, "title", NULL),
                     description |-> Get(exclusion_data, "description", "")]
         IN IF ~Truthy(row.title) THEN CreateExclusions(st, p, Tail(entries))
            ELSE IF row.description = NULL THEN Raise(st)
            ELSE CreateExclusions(Insert(st, "exclusions", p, row), p,
                                  Tail(entries))

\* views.py:269-282
SaveExclusions(st, p, data) ==
    IF ~st.ok THEN st
    ELSE IF HasItems(data, "exclusions")
    THEN CreateExclusions(DeleteAll(st, "exclusions", p), p, data.exclusions)
    ELSE st

\* views.py:305-317  the loop over health_data['covered_members'];
\* relationship is NOT NULL (models.py:245)
RECURSIVE CreateMembers(_, _, _)
CreateMembers(st, p, entries) ==
    IF ~st.ok \/ entries = <<>> THEN st
    ELSE LET member_data == Head(entries)
             row == [name |-> Get(member_data, "name", NULL),
                     relationship |-> Get(member_data, "relationship", NULL),
                     age |-> Get(member_data, "age", NULL),
                     date_of_birth |->
                         _parse_date(Get(member_data, "date_of_birth", NULL))]
         IN IF ~Truthy(row.name) THEN CreateMembers(st, p, Tail(entries))
            ELSE IF row.relationship = NULL THEN Raise(st)
            ELSE CreateMembers(Insert(st, "covered_members", p, row), p,
                               Tail(entries))

\* views.py:284-320
SaveHealthDetails(st, p, data) ==
    IF ~st.ok THEN st
    ELSE IF st.policy.insurance_type = "HEALTH" /\ Has(data, "health_details")
    THEN LET health_data == data.health_details
             health_details ==
                 Upsert(st, "health_details", p,
                     [policy_type |-> Get(health_data, "policy_type", NULL),
                      room_rent_limit |-> _to_decimal(
                          Get(health_data, "room_rent_limit", NULL)),
                      cashless_facility |->
                          Get(health_data, "cashless_facility", "true")])
         IN IF HasItems(health_data, "covered_members")
            THEN CreateMembers(DeleteAll(health_details, "covered_members", p),
                               p, health_data.covered_members)
            ELSE health_details
    ELSE st

\* views.py:322-351
SaveMotorDetails(st, p, data) ==
    IF ~st.ok THEN st
    ELSE IF st.policy.insurance_type = "MOTOR" /\ Has(data, "motor_details")
    THEN LET motor_data == data.motor_details IN
         Upsert(st, "motor_details", p,
             [vehicle_type |-> Get(motor_data, "vehicle_type", NULL),
              registration_number |->
                  Get(motor_data, "registration_number", NULL),
              idv |-> _to_decimal(Get(motor_data, "idv", NULL)),
              has_zero_depreciation |->
                  Get(motor_data, "has_zero_depreciation", "false")])
    ELSE st

\* views.py:210-351
_save_verified_data(st, p, data) ==
    SaveMotorDetails(
      SaveHealthDetails(
        SaveExclusions(
          SaveBenefits(
            SaveNominees(
              SaveCoverage(
                SaveBasicInfo(st, p, data), p, data), p, data), p, data),
          p, data), p, data), p, data)

\* views.py:189-195
MarkVerified(st, p) ==
    IF ~st.ok THEN st
    ELSE LET policy == [st.policy EXCEPT !.is_verified_by_user = TRUE,
                                         !.verified_at = "SET",
                                         !.is_processed = TRUE]
         IN [st EXCEPT !.policy = policy,
                       !.db = SaveInstance(st.db, p, policy)]

\* a block that keeps the writes made before the exception
AtomicNoRollback(before, st) == st.db
\* views.py:185  transaction.atomic(): the writes persist only when the
\* block is left without an exception
Atomic(before, st) == IF st.ok THEN st.db ELSE before

\* views.py:184-208  the transaction of one verification request
VerifyTransaction(d, instance, p, data) ==
    LET st0 == [ok |-> TRUE, db |-> d, policy |-> instance]
        st == MarkVerified(_save_verified_data(st0, p, data), p)
    IN [ok |-> st.ok, db |-> Atomic(d, st)]

(***************************************************************************)
(* Model Uploader (ai_extractor.py, _upload_to_gemini) and the errors the  *)
(* extraction can end with.                                                *)
(***************************************************************************)
e503 ==
    <<"5", "0", "3", " ", "S", "e", "r", "v", "i", "c", "e", " ", "U", "n",
      "a", "v", "a", "i", "l", "a", "b", "l", "e">>
eTemporarily ==
    <<"S", "e", "r", "v", "i", "c", "e", " ", "T", "e", "m", "p", "o", "r",
      "a", "r", "i", "l", "y", " ", "U", "n", "a", "v", "a", "i", "l", "a",
      "b", "l", "e">>
eAssign ==
    <<"[", "E", "r", "r", "n", "o", " ", "9", "9", "]", " ", "C", "a", "n",
      "n", "o", "t", " ", "a", "s", "s", "i", "g", "n", " ", "r", "e", "q",
      "u", "e", "s", "t", "e", "d", " ", "a", "d", "d", "r", "e", "s", "s">>
eDenied ==
    <<"4", "0", "1", " ", "A", "P", "I", " ", "k", "e", "y", " ", "n", "o",
      "t", " ", "v", "a", "l", "i", "d">>
eUnavailable ==
    <<"S", "e", "r", "v", "i", "c", "e", " ", "U", "n", "a", "v", "a", "i",
      "l", "a", "b", "l", "e">>
w503 ==
    <<"5", "0", "3">>
wTemporarily ==
    <<"t", "e", "m", "p", "o", "r", "a", "r", "i", "l", "y", " ", "u", "n",
      "a", "v", "a", "i", "l", "a", "b", "l", "e">>
wAssign ==
    <<"a", "s", "s", "i", "g", "n", " ", "r", "e", "q", "u", "e", "s", "t",
      "e", "d", " ", "a", "d", "d", "r", "e", "s", "s">>

\* what one call of genai.upload_file does: returns, or raises
Uploaded == [exc |-> "none", text |-> <<>>]
BrokenPipe == [exc |-> "BrokenPipeError", text |-> <<>>]
OtherError(text) == [exc |-> "Exception", text |-> text]
UploadOutcomes ==
    {Uploaded, BrokenPipe}
    \cup {OtherError(t) : t \in {e503, eTemporarily, eAssign, eDenied,
                                eUnavailable}}

\* a classification that takes every error for a transient one
transientAlways(err_msg) == TRUE
\* ai_extractor.py:102-106
transient(err_msg) ==
    \/ HasSub(Lower(err_msg), wAssign)
    \/ HasSub(err_msg, w503)
    \/ HasSub(Lower(err_msg), wTemporarily)

\* a loop that retries on its last iteration too
CanRetryAlways(attempt) == TRUE
\* ai_extractor.py:92, 107  attempt < max_retries - 1
CanRetry(attempt) == attempt < max_retries - 1

\* the number of characters of an exception's fixed text
FixedText ==
    [TooLarge |-> 53, UploadGaveUp |-> 127, UploadFailed |-> 36,
     InvalidDocument |-> 89, Unverifiable |-> 129,
     UnsupportedCategory |-> 130, ParseError |-> 75, TypeError |-> 45]

\* raise ValueError(f"<fixed text of the kind>{detail}")
ValueError(kind, detail) == Message(kind, detail, FixedText[kind] + Len(detail))

\* what one query to the model does: returns a text, or raises
Reply(text) == [exc |-> "none", text |-> text, len |-> Len(text)]
Raised(text, len) == [exc |-> "Exception", text |-> text, len |-> len]
Replies(texts) == {Reply(t) : t \in texts}

\* the length of a long exception text of the model client
LongErrorLen == 1500
\* 429 Resource exhausted: quota
eQuota ==
    <<"4", "2", "9", " ", "R", "e", "s", "o", "u", "r", "c", "e", " ", "e",
      "x", "h", "a", "u", "s", "t", "e", "d", ":", " ", "q", "u", "o", "t",
      "a">>
\* the first ErrorLimit characters of a long exception text
LongHead == [i \in 1..ErrorLimit |-> "."]
\* what a query to the model can raise
ModelErrors ==
    {Raised(eDenied, Len(eDenied)), Raised(e503, LongErrorLen),
     Raised(eQuota, Len(eQuota)),
     Raised(LongHead \o eQuota, ErrorLimit + Len(eQuota)),
     Raised(LongHead \o eDenied, ErrorLimit + Len(eDenied))}
\* str(e) of such an exception
ModelError(outcome) == Message("ModelError", outcome.text, outcome.len)

\* views.py:67  error_message[:1000]
Truncate(msg) ==
    [msg EXCEPT !.len = Min(@, ErrorLimit),
                !.detail = SubSeq(@, 1, Min(Len(@), ErrorLimit))]

\* a failure handler that records the error and leaves the status alone
FailureKeepsStatus(error_message) ==
    [ai_extraction_error |-> Truncate(error_message)]
\* views.py:64-68  the columns the failure handler writes
FailureFields(error_message) ==
    [ai_extraction_status |-> "FAILED",
     ai_extraction_error |-> Truncate(error_message)]

\* views.py:58-70  except Exception as e
HandleFailure(d, p, error_message) ==
    IF Exists(d, p) THEN SaveFields(d, p, FailureFields(error_message)) ELSE d

(***************************************************************************)
(* Extraction Job (views.py, process_policy_extraction_background): one    *)
(* thread per call, stepped at every blocking call.  job[t] holds the      *)
(* position and locals of thread t; uploads, sleeps, queries, last_upload, *)
(* type_reply and raised record what the thread has done.                  *)
(***************************************************************************)
\* the number of policies the uploads create
MaxPolicies == 1
\* thread p is the one the upload of policy p starts (views.py:100-105);
\* thread p + MaxPolicies is a second call of
\* process_policy_extraction_background(p)
JobIds == PolicyIds \cup {p + MaxPolicies : p \in PolicyIds}
\* the argument of the call
policy_id(t) == IF t \in PolicyIds THEN t ELSE t - MaxPolicies

NoJob ==
    [pc |-> "none", attempt |-> 0, retry_delay |-> 0, uploads |-> 0,
     sleeps |-> 0, last_upload |-> Uploaded, tmp_file |-> FALSE,
     queries |-> <<>>, type_reply |-> <<>>, insurance_type |-> <<>>,
     extracted_data |-> JNull, found |-> FALSE, raised |-> NoError]

kInsuranceType ==
    <<"i", "n", "s", "u", "r", "a", "n", "c", "e", "_", "t", "y", "p", "e">>

\* the replies the job's queries draw from
JobValidityReplies == {wVALID, vIN \o wVALID \o vReason, wVALID \o vATION,
                       vMaybe}
JobTypeReplies == {wLIFE, tHealthPadded, wMOTOR, wOTHER, tCar}
JobJsonReplies == {jA1, pJson \o jA1c \o sFence, jNot, jArrC}

\* the thread ends with an exception: the handler runs and the thread exits
Failed(t, j, error_message) ==
    /\ db' = HandleFailure(db, policy_id(t), error_message)
    /\ job' = [job EXCEPT ![t] = [j EXCEPT !.pc = "done",
                                           !.raised = error_message]]

\* views.py:31-36
JobStart(t) ==
    /\ job[t].pc = "start"
    /\ Exists(db, policy_id(t))
    /\ db' = SaveFields(db, policy_id(t),
                        [ai_extraction_status |-> "PROCESSING"])
    /\ job' = [job EXCEPT ![t].pc = "read"]
    /\ UNCHANGED <<vreq, dreq, resp, commits, rtext, rout, otp>>

\* a size check that lets every document through
TooLargeNever(file_size_mb) == FALSE
\* ai_extractor.py:70  if file_size_mb > 20
TooLarge(file_size_mb) == file_size_mb > MaxFileSizeMB

\* str(e) of the exception file_field.open / read raises when the storage
\* cannot deliver the document
StorageError == Message("StorageError", <<>>, 40)

\* ai_extractor.py:59-76  the temporary copy and the size check; the
\* temporary file is created with delete=False before the stored document
\* is opened and read
JobRead(t) ==
    /\ job[t].pc = "read"
    /\ \E readable \in BOOLEAN :
          LET file_size_mb == Row(db, policy_id(t)).document.size IN
          IF ~readable
          THEN Failed(t, [job[t] EXCEPT !.tmp_file = TRUE], StorageError)
          ELSE IF TooLarge(file_size_mb)
          THEN Failed(t, [job[t] EXCEPT !.tmp_file = FALSE],
                      ValueError("TooLarge", <<>>))
          ELSE /\ job' = [job EXCEPT ![t].pc = "upload",
                                     ![t].tmp_file = TRUE,
                                     ![t].attempt = 0,
                                     ![t].retry_delay = InitialRetryDelay]
               /\ db' = db
    /\ UNCHANGED <<vreq, dreq, resp, commits, rtext, rout, otp>>

\* ai_extractor.py:78-121  one iteration of `for attempt in range(max_retries)`
JobUploadAttempt(t, outcome) ==
    /\ job[t].pc = "upload"
    /\ job[t].attempt < max_retries
    /\ LET j == [job[t] EXCEPT !.uploads = @ + 1, !.last_upload = outcome]
           attempt == job[t].attempt
           unlinked == [j EXCEPT !.tmp_file = FALSE]
       IN
       IF outcome.exc = "none"
       THEN /\ job' = [job EXCEPT ![t] = [unlinked EXCEPT !.pc = "validate"]]
            /\ db' = db
       ELSE IF outcome.exc = "BrokenPipeError"
       THEN IF CanRetry(attempt)
            THEN /\ job' = [job EXCEPT ![t] =
                               [j EXCEPT !.sleeps = @ + 1,
                                         !.retry_delay = @ * 2,
                                         !.attempt = @ + 1]]
                 /\ db' = db
            ELSE Failed(t, unlinked, ValueError("UploadGaveUp", <<>>))
       ELSE IF transient(outcome.text) /\ CanRetry(attempt)
            THEN /\ job' = [job EXCEPT ![t] =
                               [j EXCEPT !.sleeps = @ + 1,
                                         !.retry_delay =
                                             Min(@ * 2, MaxRetryDelay),
                                         !.attempt = @ + 1]]
                 /\ db' = db
            ELSE Failed(t, unlinked, ValueError("UploadFailed", outcome.text))
    /\ UNCHANGED <<vreq, dreq, resp, commits, rtext, rout, otp>>

\* ai_extractor.py:30-33, 151-162  the validity query
JobValidate(t, reply) ==
    /\ job[t].pc = "validate"
    /\ LET j == [job[t] EXCEPT !.queries = Append(@, "validate")] IN
       IF reply.exc # "none" THEN Failed(t, j, ModelError(reply))
       ELSE LET v == _validate_insurance_document(reply.text) IN
            IF v.is_valid
            THEN /\ job' = [job EXCEPT ![t] = [j EXCEPT !.pc = "identify"]]
                 /\ db' = db
            ELSE Failed(t, j, ValueError(v.kind, v.reason))
    /\ UNCHANGED <<vreq, dreq, resp, commits, rtext, rout, otp>>

\* a dispatch that has a schema for every category
HasSchemaAny(insurance_type) == TRUE
\* ai_extractor.py:39-46  the categories with a schema-extraction query
HasSchema(insurance_type) == insurance_type \in SupportedTypes

\* ai_extractor.py:35-46, 178-184  the type query and the dispatch on it
JobIdentify(t, reply) ==
    /\ job[t].pc = "identify"
    /\ LET j == [job[t] EXCEPT !.queries = Append(@, "identify")] IN
       IF reply.exc # "none" THEN Failed(t, j, ModelError(reply))
       ELSE LET insurance_type == _identify_insurance_type(reply.text)
                k == [j EXCEPT !.type_reply = reply.text,
                               !.insurance_type = insurance_type]
            IN IF HasSchema(insurance_type)
               THEN /\ job' = [job EXCEPT ![t] = [k EXCEPT !.pc = "extract"]]
                    /\ db' = db
               ELSE Failed(t, k, ValueError("UnsupportedCategory", <<>>))
    /\ UNCHANGED <<vreq, dreq, resp, commits, rtext, rout, otp>>

\* a table that takes any number of rows per policy
NoConstraint(rows) == TRUE
\* models.py:256  OneToOneField: policy_id is unique in the table
UniquePolicy(rows) == Len(rows) <= 1

\* views.py:44-51  ExtractedDocument.objects.update_or_create(policy=policy,
\* defaults=...): the row found by the lookup is updated; when none was
\* found a row is inserted, and an insert the constraint refuses turns into
\* an update of the row that is there
update_or_create(rows, found, row) ==
    IF ~found /\ UniquePolicy(Append(rows, row))
    THEN Append(rows, row)
    ELSE [i \in 1..Len(rows) |-> row]

\* a job that marks the policy COMPLETED without storing the document
StatusWithoutDocument(d, p, found, extracted_data) ==
    SaveFields(d, p,
        [ai_extraction_status |-> "COMPLETED", ai_extracted_at |-> "SET",
         ai_extraction_error |-> NoError])

\* views.py:43-56  the transaction that stores the result
StoreResult(d, p, found, extracted_data) ==
    SaveFields(
        [d EXCEPT !.extracted_document[p] =
            update_or_create(@, found,
                [raw_text |-> <<>>, structured_data |-> extracted_data])],
        p,
        [ai_extraction_status |-> "COMPLETED", ai_extracted_at |-> "SET",
         ai_extraction_error |-> NoError])

\* ai_extractor.py:246, 314, 425  _parse_json_response(response.text) on each
\* reply the job can get, evaluated once
ParsedJobReplies == [t \in JobJsonReplies |-> _parse_json_response(t)]

\* ai_extractor.py:37-51  the schema query, the parse and the
\* insurance_type key
JobExtract(t, reply) ==
    /\ job[t].pc = "extract"
    /\ LET j == [job[t] EXCEPT !.queries = Append(@, "extract")] IN
       IF reply.exc # "none" THEN Failed(t, j, ModelError(reply))
       ELSE LET parsed == ParsedJobReplies[reply.text] IN
            IF ~parsed.ok THEN Failed(t, j, ValueError("ParseError", <<>>))
            ELSE IF parsed.val.t # "obj"
            THEN Failed(t, j, ValueError("TypeError", <<>>))
            ELSE /\ db' = db
                 /\ job' = [job EXCEPT ![t] =
                       [j EXCEPT !.pc = "lookup",
                                 !.extracted_data =
                                     JObj(DictSet(parsed.val.v, kInsuranceType,
                                              JStr(job[t].insurance_type)))]]
    /\ UNCHANGED <<vreq, dreq, resp, commits, rtext, rout, otp>>

\* views.py:44  the lookup of update_or_create
JobLookup(t) ==
    /\ job[t].pc = "lookup"
    /\ job' = [job EXCEPT ![t].pc = "persist",
                          ![t].found =
                              db.extracted_document[policy_id(t)] # <<>>]
    /\ UNCHANGED <<db, vreq, dreq, resp, commits, rtext, rout, otp>>

\* views.py:43-56  the write of update_or_create, the status and the commit
JobPersist(t) ==
    /\ job[t].pc = "persist"
    /\ db' = StoreResult(db, policy_id(t), job[t].found,
                         job[t].extracted_data)
    /\ job' = [job EXCEPT ![t].pc = "done"]
    /\ UNCHANGED <<vreq, dreq, resp, commits, rtext, rout, otp>>

\* the steps of thread t
JobStep(t) ==
    \/ JobStart(t)
    \/ JobRead(t)
    \/ \E outcome \in UploadOutcomes : JobUploadAttempt(t, outcome)
    \/ \E reply \in Replies(JobValidityReplies) \cup ModelErrors :
           JobValidate(t, reply)
    \/ \E reply \in Replies(JobTypeReplies) \cup ModelErrors :
           JobIdentify(t, reply)
    \/ \E reply \in Replies(JobJsonReplies) \cup ModelErrors :
           JobExtract(t, reply)
    \/ JobLookup(t)
    \/ JobPersist(t)

(***************************************************************************)
(* Request bodies of the verification endpoint.                            *)
(***************************************************************************)
nomAsha == [name |-> "Asha", relationship |-> "Spouse",
            allocation_percentage |-> "60"]
nomRavi == [name |-> "Ravi"]
nomAnon == [relationship |-> "Child", allocation_percentage |-> "100"]
nomBlank == [name |-> "", relationship |-> "Child"]

benDeath == [benefit_type |-> "BASE", name |-> "Death Benefit",
             coverage_amount |-> "500000"]
benRider == [name |-> "Accident Rider", coverage_amount |-> "1,00,000"]
benAnon == [benefit_type |-> "RIDER", description |-> "unnamed"]
\* "benefit_type": null
benNull == [benefit_type |-> NULL, name |-> "Bonus"]

exWar == [title |-> "War", description |-> "Acts of war"]
exSelf == [title |-> "Self harm"]
exAnon == [description |-> "untitled"]

memAsha == [name |-> "Asha", relationship |-> "Spouse", age |-> "34"]
\* no "relationship" key
memRavi == [name |-> "Ravi", age |-> "60"]

memDev == [name |-> "Dev", relationship |-> "Son", age |-> "12"]
memAnon == [relationship |-> "Daughter", age |-> "9"]

covFull == [sum_assured |-> "500000", premium_amount |-> "12000",
            premium_frequency |-> "YEARLY", end_date |-> "2030-01-01"]
\* amounts that are not numbers and dates that are not YYYY-MM-DD
covOdd == [sum_assured |-> "5 lakh", premium_amount |-> "",
           premium_frequency |-> "YEARLY", end_date |-> "01/01/2030",
           maturity_date |-> "null"]
nomMeera == [name |-> "Meera", relationship |-> "Mother",
             allocation_percentage |-> "sixty"]
\* "allocation_percentage": null
nomKiran == [name |-> "Kiran", allocation_percentage |-> NULL]

\* the keys every body below holds
Basic(insurance_type) ==
    [insurance_type |-> insurance_type, policy_number |-> "PN-1",
     insurer_name |-> "LIC", coverage |-> covFull]

\* a key that is absent, or present with one of the values
Optional(key, values) == {<<>>} \cup {[k \in {key} |-> v] : v \in values}

NomineeLists == {<<>>, <<nomAsha, nomAnon>>, <<nomBlank, nomRavi>>}
BenefitLists == {<<>>, <<benDeath>>, <<benAnon, benRider, benDeath>>,
                 <<benDeath, benRider, benNull, benDeath, benRider>>}
ExclusionLists == {<<>>, <<exAnon>>, <<exWar, exAnon, exSelf>>}
MemberLists == {<<>>, <<memAsha>>, <<memAsha, memRavi>>, <<memAnon, memDev>>}
HealthBlocks ==
    {[policy_type |-> "FAMILY_FLOATER", room_rent_limit |-> "12000"] @@ m :
        m \in Optional("covered_members", MemberLists)}
MotorBlocks == {[vehicle_type |-> "CAR", registration_number |-> "KA01",
                 idv |-> "500000"]}

\* the bodies the verification runs draw from
VerifiedData ==
    {Basic("LIFE") @@ n @@ b @@ e :
        n \in Optional("nominees", NomineeLists),
        b \in Optional("benefits", BenefitLists),
        e \in Optional("exclusions", ExclusionLists)}
    \cup {Basic("HEALTH") @@ h @@ b :
        h \in Optional("health_details", HealthBlocks),
        b \in Optional("benefits", {<<benDeath, benRider, benNull,
                                      benDeath, benRider>>})}
    \cup {Basic(t) @@ m @@ n :
        t \in {"MOTOR", "LIFE"},
        m \in Optional("motor_details", MotorBlocks),
        n \in Optional("nominees", {<<nomAsha, nomAnon>>})}
    \cup {[Basic("LIFE") EXCEPT !.coverage = covOdd] @@ n :
        n \in Optional("nominees", {<<nomAsha>>, <<nomMeera>>, <<nomKiran>>})}

\* the bodies the lifecycle runs draw from
SomeVerifiedData ==
    {Basic("LIFE") @@ [nominees |-> <<nomAsha, nomAnon>>],
     Basic("HEALTH") @@ [health_details |->
         [policy_type |-> "INDIVIDUAL", covered_members |-> <<memAsha>>]],
     Basic("LIFE") @@ [benefits |-> <<benDeath, benRider, benNull,
                                     benDeath, benRider>>]}

(***************************************************************************)
(* The HTTP endpoints (views.py).  resp is the response to the latest      *)
(* request, NoResponse while that request is still being served; vreq is   *)
(* the verification request being served, between its read of the Policy   *)
(* row and its transaction.                                                *)
(***************************************************************************)
NoResponse == [view |-> "none", code |-> 0, status |-> NULL, data |-> None]
Response(view, code, status, data) ==
    [view |-> view, code |-> code, status |-> status, data |-> data]

\* views.py:78-122  PolicyUploadView.post
Upload(u, size) ==
    /\ \E p \in PolicyIds : ~Exists(db, p)
    /\ LET p == CHOOSE q \in PolicyIds :
                    /\ ~Exists(db, q)
                    /\ \A r \in PolicyIds : ~Exists(db, r) => q <= r
       IN /\ db' = [db EXCEPT !.policy[p] = Some(Policy(u, [size |-> size]))]
          /\ job' = [job EXCEPT ![p] = [NoJob EXCEPT !.pc = "start"]]
          /\ resp' = Response("upload", 201, "PENDING", None)
    /\ UNCHANGED <<vreq, dreq, commits, rtext, rout, otp>>

\* a response that carries the extracted data in every status
IncludesDataAlways(ai_extraction_status) == TRUE
\* views.py:149  if policy.ai_extraction_status == 'COMPLETED'
IncludesData(ai_extraction_status) == ai_extraction_status = "COMPLETED"

\* views.py:129-156  PolicyExtractionStatusView.get
StatusQuery(u, p) ==
    /\ resp' = IF ~Owned(db, u, p)
               THEN Response("status", 404, NULL, None)
               ELSE Response("status", 200, Status(db, p),
                        IF IncludesData(Status(db, p))
                        THEN db.extracted_document[p]
                        ELSE None)
    /\ UNCHANGED <<db, job, vreq, dreq, commits, rtext, rout, otp>>

\* a status check that lets every policy through
CanVerifyAny(policy) == TRUE
\* views.py:173  the status check of the verification endpoint
CanVerify(policy) == policy.ai_extraction_status = "COMPLETED"

\* views.py:163-181  PolicyVerifyView.post up to the transaction
VerifyBegin(u, p, data) ==
    /\ vreq = None
    /\ IF ~Owned(db, u, p)
       THEN /\ resp' = Response("verify", 404, NULL, None)
            /\ vreq' = vreq
       ELSE IF ~CanVerify(Row(db, p))
       THEN /\ resp' = Response("verify", 400, NULL, None)
            /\ vreq' = vreq
       ELSE /\ resp' = NoResponse
            /\ vreq' = Some([id |-> p, policy |-> Row(db, p), data |-> data])
    /\ UNCHANGED <<db, job, dreq, commits, rtext, rout, otp>>

\* views.py:183-208  PolicyVerifyView.post, the transaction and the response
VerifyCommit ==
    /\ vreq # None
    /\ LET r == vreq[1]
           out == VerifyTransaction(db, r.policy, r.id, r.data)
       IN /\ db' = out.db
          /\ commits' = IF out.ok THEN commits \cup {r.id} ELSE commits
          /\ resp' = Response("verify", IF out.ok THEN 200 ELSE 500, NULL, None)
    /\ vreq' = None
    /\ UNCHANGED <<job, dreq, rtext, rout, otp>>

\* a check that serves every policy
CanViewAny(policy) == TRUE
\* views.py:455  if not policy.is_verified_by_user
CanView(policy) == policy.is_verified_by_user

\* views.py:447-449  the tables prefetch_related reads, one query each, after
\* the query that joins Policy with coverage, health_details, motor_details
Prefetched == <<"nominees", "benefits", "exclusions", "covered_members">>

\* serializers.py:126-149  PolicyDetailSerializer over the loaded instance
PolicyDetailSerializer(r) ==
    [id |-> r.id,
     insurance_type |-> r.policy.insurance_type,
     policy_number |-> r.policy.policy_number,
     insurer_name |-> r.policy.insurer_name,
     document |-> r.policy.document,
     coverage |-> r.coverage,
     nominees |-> r.nominees,
     benefits |-> r.benefits,
     exclusions |-> r.exclusions,
     health_details |-> r.health_details,
     covered_members |-> r.covered_members,
     motor_details |-> r.motor_details]

\* the instance as one query at database d would load it
Loaded(d, p) ==
    [id |-> p, policy |-> Row(d, p), coverage |-> d.coverage[p],
     health_details |-> d.health_details[p],
     motor_details |-> d.motor_details[p],
     nominees |-> d.nominees[p], benefits |-> d.benefits[p],
     exclusions |-> d.exclusions[p],
     covered_members |-> d.covered_members[p]]

\* views.py:445-452  PolicyDetailView.get, the joined query of
\* get_object_or_404
DetailBegin(u, p) ==
    /\ dreq = None
    /\ IF ~Owned(db, u, p)
       THEN /\ resp' = Response("detail", 404, NULL, None)
            /\ dreq' = dreq
       ELSE /\ resp' = NoResponse
            /\ dreq' = Some([Loaded(db, p) EXCEPT
                                !.nominees = <<>>, !.benefits = <<>>,
                                !.exclusions = <<>>,
                                !.covered_members = <<>>]
                            @@ [queries |-> 0])
    /\ UNCHANGED <<db, job, vreq, commits, rtext, rout, otp>>

\* views.py:447-462  the next prefetch query and, after the last one, the
\* check and the response
DetailPrefetch ==
    /\ dreq # None
    /\ LET table == Prefetched[dreq[1].queries + 1]
           r == [dreq[1] EXCEPT ![table] = db[table][dreq[1].id],
                                !.queries = @ + 1]
       IN IF r.queries < Len(Prefetched)
          THEN /\ dreq' = Some(r)
               /\ resp' = resp
          ELSE /\ dreq' = None
               /\ resp' = IF ~CanView(r.policy)
                          THEN Response("detail", 403, NULL, None)
                          ELSE Response("detail", 200, NULL,
                                        Some(PolicyDetailSerializer(r)))
    /\ UNCHANGED <<db, job, vreq, commits, rtext, rout, otp>>

(***************************************************************************)
(* The list endpoint (views.py, PolicyListView).  A bucket is the sequence *)
(* of the serialized policies it holds, newest first.                      *)
(***************************************************************************)
\* serializers.py:27-66  PolicyListSerializer
PolicyListSerializer(d, p) ==
    LET policy == Row(d, p)
        coverage == d.coverage[p]
    IN [id |-> p,
        insurance_type |-> policy.insurance_type,
        policy_number |-> policy.policy_number,
        insurer_name |-> policy.insurer_name,
        sum_assured |->
            IF coverage # None THEN coverage[1].sum_assured ELSE NULL,
        ai_extraction_status |-> policy.ai_extraction_status,
        is_verified_by_user |-> policy.is_verified_by_user]

\* views.py:397  if policy.is_verified_by_user and policy.insurance_type
Grouped(policy) ==
    policy.is_verified_by_user /\ Truthy(policy.insurance_type)

\* views.py:380-383  Policy.objects.filter(user=request.user, is_active=True)
Listed(d, u, p) == Owned(d, u, p) /\ Row(d, p).is_active

\* views.py:392-405  the loop over the policies with ids up to n, in the
\* order of order_by('-uploaded_at'): ids are handed out in upload order
RECURSIVE Grouping(_, _, _, _)
Grouping(d, u, n, acc) ==
    IF n = 0 THEN acc
    ELSE IF n \notin DOMAIN d.policy \/ ~Listed(d, u, n)
    THEN Grouping(d, u, n - 1, acc)
    ELSE LET policy == Row(d, n)
             policy_data == PolicyListSerializer(d, n)
             bucket ==
                 IF Grouped(policy)
                 THEN CASE policy.insurance_type = "HEALTH" -> "health"
                        [] policy.insurance_type = "LIFE" -> "life"
                        [] policy.insurance_type = "MOTOR" -> "motor"
                        [] OTHER -> "none"
                 ELSE "unprocessed"
         IN Grouping(d, u, n - 1,
                IF bucket = "none" THEN acc
                ELSE [acc EXCEPT ![bucket] = Append(@, policy_data)])

NoBuckets == [health |-> <<>>, life |-> <<>>, motor |-> <<>>,
              unprocessed |-> <<>>]

\* the greatest id of the table
LastId(d) == CHOOSE n \in DOMAIN d.policy : \A m \in DOMAIN d.policy : m <= n

\* views.py:407-437  the response for a filter given as a character
\* sequence, <<>> when the query parameter is absent or empty
Buckets(d, u, insurance_type_filter) ==
    LET all == Grouping(d, u, LastId(d), NoBuckets)
        only(key) == [NoBuckets EXCEPT ![key] = all[key],
                                       !.unprocessed = all.unprocessed]
    IN IF insurance_type_filter # <<>>
       THEN CASE Upper(insurance_type_filter) = wHEALTH -> only("health")
              [] Upper(insurance_type_filter) = wLIFE -> only("life")
              [] Upper(insurance_type_filter) = wMOTOR -> only("motor")
              [] OTHER -> all
       ELSE all

\* the values of the insurance_type query parameter
ListFilters == {<<>>, <<"h","e","a","l","t","h">>, wLIFE,
                <<"M","o","t","o","r">>, <<"a","l","l">>}

\* views.py:376-438  PolicyListView.get
ListQuery(u, insurance_type_filter) ==
    /\ resp' = Response("list", 200, NULL,
                    Some(Buckets(db, u, insurance_type_filter)))
    /\ UNCHANGED <<db, job, vreq, dreq, commits, rtext, rout, otp>>

(***************************************************************************)
(* Premium normalization (views.py, DashboardStatsView).  A Decimal is     *)
(* [coef, exp]: the digits of its coefficient, most significant first, and *)
(* its exponent; a missing amount has no digits.                           *)
(***************************************************************************)
\* the precision of the decimal context the division at views.py:610 runs in
Prec == 28

Dec(coef, exp) == [coef |-> coef, exp |-> exp]
NoAmount == Dec(<<>>, 0)
Zeros(n) == [i \in 1..n |-> 0]

\* the digits without leading zeros
RECURSIVE StripZeros(_)
StripZeros(ds) ==
    IF Len(ds) > 1 /\ Head(ds) = 0 THEN StripZeros(Tail(ds)) ELSE ds

\* divmod(int(ds), d) by long division: the quotient's digits and the
\* remainder
RECURSIVE LongDiv(_, _, _, _)
LongDiv(ds, d, carry, acc) ==
    IF ds = <<>> THEN [q |-> StripZeros(acc), r |-> carry]
    ELSE LET cur == carry * 10 + Head(ds)
         IN LongDiv(Tail(ds), d, cur % d, Append(acc, cur \div d))

\* int(ds) + 1
RECURSIVE Increment(_)
Increment(ds) ==
    IF ds = <<>> THEN <<1>>
    ELSE IF ds[Len(ds)] < 9
    THEN [ds EXCEPT ![Len(ds)] = @ + 1]
    ELSE Append(Increment(SubSeq(ds, 1, Len(ds) - 1)), 0)

\* the number of decimal digits of a small positive integer
RECURSIVE DigitCount(_)
DigitCount(d) == IF d < 10 THEN 1 ELSE 1 + DigitCount(d \div 10)

\* bool(Decimal): a missing amount and a zero are false
Nonzero(x) == \E i \in 1..Len(x.coef) : x.coef[i] # 0

\* the trailing zeros of an exact quotient are dropped down to the ideal
\* exponent
RECURSIVE Reduce(_, _)
Reduce(x, ideal_exp) ==
    IF x.exp < ideal_exp /\ Len(x.coef) > 1 /\ x.coef[Len(x.coef)] = 0
    THEN Reduce(Dec(SubSeq(x.coef, 1, Len(x.coef) - 1), x.exp + 1), ideal_exp)
    ELSE IF x.exp < ideal_exp /\ x.coef = <<0>> THEN Dec(<<0>>, ideal_exp)
    ELSE x

\* Decimal._fix: a coefficient longer than the precision is rounded
\* half-even to Prec digits
Fix(x) ==
    IF Len(x.coef) <= Prec THEN x
    ELSE LET kept == SubSeq(x.coef, 1, Prec)
             dropped == SubSeq(x.coef, Prec + 1, Len(x.coef))
             rest == \E i \in 2..Len(dropped) : dropped[i] # 0
             up == \/ dropped[1] > 5
                   \/ dropped[1] = 5 /\ rest
                   \/ dropped[1] = 5 /\ ~rest /\ kept[Prec] % 2 = 1
             exp == x.exp + Len(dropped)
             coef == IF up THEN Increment(kept) ELSE kept
         IN IF Len(coef) > Prec
            THEN Dec(SubSeq(coef, 1, Prec), exp + 1)
            ELSE Dec(coef, exp)

\* Decimal.__truediv__ by the Decimal of a small positive integer d
Divide(x, d) ==
    LET shift == DigitCount(d) - Len(x.coef) + Prec + 1
        exp == x.exp - shift
        dm == IF shift >= 0
              THEN LongDiv(x.coef \o Zeros(shift), d, 0, <<>>)
              ELSE LET head == SubSeq(x.coef, 1, Len(x.coef) + shift)
                       tail == SubSeq(x.coef, Len(x.coef) + shift + 1,
                                      Len(x.coef))
                       hd == LongDiv(head, d, 0, <<>>)
                   IN [q |-> hd.q,
                       r |-> IF \E i \in 1..Len(tail) : tail[i] # 0
                             THEN 1 ELSE hd.r]
        coeff == IF dm.r # 0 /\ dm.q[Len(dm.q)] % 5 = 0
                 THEN Increment(dm.q) ELSE dm.q
    IN Fix(IF dm.r # 0 THEN Dec(coeff, exp)
           ELSE Reduce(Dec(coeff, exp), x.exp))

\* a conversion that ignores the frequency
PremiumAsPaid(amount, frequency) ==
    IF ~Nonzero(amount) THEN Dec(<<0>>, 0) ELSE amount

\* views.py:600-616
_convert_to_monthly_premium(amount, frequency) ==
    IF ~Nonzero(amount) THEN Dec(<<0>>, 0)
    ELSE CASE frequency = "MONTHLY" -> amount
           [] frequency = "QUARTERLY" -> Divide(amount, 3)
           [] frequency = "HALF_YEARLY" -> Divide(amount, 6)
           [] frequency = "YEARLY" -> Divide(amount, 12)
           [] OTHER -> Dec(<<0>>, 0)

(***************************************************************************)
(* OTP login (accounts/views_otp.py).  A verify request is two steps: the  *)
(* query for the latest usable OTP record of the phone number, and the     *)
(* comparison with the save and the response.  otp.reqs[s] is the request  *)
(* worker s is serving, with the OTP instance it has loaded.  otp.wrong    *)
(* and otp.logins count, per OTP record, the wrong codes submitted and the *)
(* token pairs issued.                                                     *)
(***************************************************************************)
\* settings.py:153
OTP_MAX_ATTEMPTS == 5
\* the OTP records the requests create, the verify requests served at the
\* same time and the verify requests of a run
MaxOtps == 2
MaxWorkers == 2
MaxVerifies == 7
OtpIds == 1..MaxOtps
Workers == 1..MaxWorkers
Phones == {"+911"}
Codes == {"111111", "222222"}

\* otp_utils.py:7-9  the keyed hash of the code under the record's salt
hash_otp(code, salt) == <<code, salt>>

\* models.py:76-84  a new OTP row; the salt is fresh for every row
OTP(id, phone_number, code) ==
    [id |-> id, phone_number |-> phone_number,
     otp_hash |-> hash_otp(code, id), salt |-> id,
     attempts |-> 0, used |-> FALSE, expired |-> FALSE]

NoOtp ==
    [rows |-> [o \in OtpIds |-> None],
     users |-> {},
     reqs |-> [s \in Workers |-> None],
     wrong |-> [o \in OtpIds |-> 0],
     logins |-> [o \in OtpIds |-> 0],
     verifies |-> 0]

\* views_otp.py:24-47  OTPRequestView.post; ids follow created_at
OTPRequest(phone, code) ==
    /\ \E o \in OtpIds : otp.rows[o] = None
    /\ LET o == CHOOSE n \in OtpIds :
                    /\ otp.rows[n] = None
                    /\ \A m \in OtpIds : otp.rows[m] = None => n <= m
       IN otp' = [otp EXCEPT !.rows[o] = Some(OTP(o, phone, code))]
    /\ resp' = Response("otp-request", 202, NULL, None)
    /\ UNCHANGED <<db, job, vreq, dreq, commits, rtext, rout>>

\* the clock passes expires_at of the record
OTPExpire(o) ==
    /\ otp.rows[o] # None
    /\ ~otp.rows[o][1].expired
    /\ otp' = [otp EXCEPT !.rows[o][1].expired = TRUE]
    /\ UNCHANGED <<db, job, vreq, dreq, resp, commits, rtext, rout>>

\* views_otp.py:57  filter(phone_number=phone, used=False,
\* expires_at__gt=now)
Usable(rows, phone) ==
    {o \in OtpIds : /\ rows[o] # None
                    /\ rows[o][1].phone_number = phone
                    /\ ~rows[o][1].used
                    /\ ~rows[o][1].expired}

\* views_otp.py:51-59  OTPVerifyView.post up to the query
OTPVerifyBegin(s, phone, code) ==
    /\ otp.reqs[s] = None
    /\ otp.verifies < MaxVerifies
    /\ LET usable == Usable(otp.rows, phone) IN
       IF usable = {}
       THEN /\ resp' = Response("otp-verify", 400, NULL, None)
            /\ otp' = [otp EXCEPT !.verifies = @ + 1]
       ELSE LET latest == CHOOSE o \in usable : \A m \in usable : m <= o
            IN /\ resp' = NoResponse
               /\ otp' = [otp EXCEPT
                              !.verifies = @ + 1,
                              !.reqs[s] = Some([phone |-> phone, code |-> code,
                                                otp |-> otp.rows[latest][1]])]
    /\ UNCHANGED <<db, job, vreq, dreq, commits, rtext, rout>>

\* views_otp.py:61-77  the comparison, the save of the loaded instance with
\* update_fields, and the response
OTPVerifyFinish(s) ==
    /\ otp.reqs[s] # None
    /\ LET r == otp.reqs[s][1]
           o == r.otp.id
           expected == hash_otp(r.code, r.otp.salt)
       IN IF expected # r.otp.otp_hash
          THEN LET attempts == r.otp.attempts + 1
                   used == IF attempts >= OTP_MAX_ATTEMPTS THEN TRUE
                           ELSE r.otp.used
               IN /\ otp' = [otp EXCEPT !.rows[o][1].attempts = attempts,
                                        !.rows[o][1].used = used,
                                        !.wrong[o] = @ + 1,
                                        !.reqs[s] = None]
                  /\ resp' = Response("otp-verify", 400, NULL, None)
          ELSE /\ otp' = [otp EXCEPT !.rows[o][1].used = TRUE,
                                     !.users = @ \cup {r.phone},
                                     !.logins[o] = @ + 1,
                                     !.reqs[s] = None]
               /\ resp' = Response("otp-verify",
                               IF r.phone \in otp.users THEN 200 ELSE 201,
                               NULL, None)
    /\ UNCHANGED <<db, job, vreq, dreq, commits, rtext, rout>>

(***************************************************************************)
(* The system: uploads, extraction threads, status polls, verifications.   *)
(***************************************************************************)
Init ==
    /\ db = EmptyDb
    /\ job = [t \in JobIds |-> NoJob]
    /\ vreq = None
    /\ dreq = None
    /\ resp = NoResponse
    /\ commits = {}
    /\ rtext = <<>>
    /\ rout = NoResult
    /\ otp = NoOtp

Next ==
    \/ \E u \in Users, size \in DocSizes : Upload(u, size)
    \/ \E p \in PolicyIds : JobStep(p)
    \/ \E u \in Users, p \in PolicyIds : StatusQuery(u, p)
    \/ \E u \in Users, p \in PolicyIds, data \in SomeVerifiedData :
           VerifyBegin(u, p, data)
    \/ VerifyCommit

Spec == Init /\ [][Next]_vars

\* every started thread keeps running (threading.Thread, views.py:100-105)
FairSpec == Spec /\ \A p \in PolicyIds : WF_vars(JobStep(p))

\* the same system with the detail endpoint (urls.py:10)
NextDetail ==
    \/ Next
    \/ \E u \in Users, p \in PolicyIds : DetailBegin(u, p)
    \/ DetailPrefetch

SpecDetail == Init /\ [][NextDetail]_vars

(***************************************************************************)
(* Two calls of process_policy_extraction_background for one uploaded      *)
(* policy (thread 1 started by the upload, thread 2 a retried extraction), *)
(* with status polls and verifications.                                    *)
(***************************************************************************)
InitRetry ==
    /\ db = [EmptyDb EXCEPT !.policy[1] = Some(Policy("u1", [size |-> 5]))]
    /\ job = [t \in JobIds |-> [NoJob EXCEPT !.pc = "start"]]
    /\ vreq = None
    /\ dreq = None
    /\ resp = Response("upload", 201, "PENDING", None)
    /\ commits = {}
    /\ rtext = <<>>
    /\ rout = NoResult
    /\ otp = NoOtp

\* what the model answers in these runs
RetryUploadOutcomes == {Uploaded, BrokenPipe, OtherError(eDenied)}
RetryErrors == {Raised(eQuota, Len(eQuota)),
                Raised(LongHead \o eDenied, ErrorLimit + Len(eDenied))}

NextRetry ==
    \/ \E t \in JobIds :
          \/ JobStart(t)
          \/ JobRead(t)
          \/ \E outcome \in RetryUploadOutcomes : JobUploadAttempt(t, outcome)
          \/ \E reply \in Replies({wVALID, vMaybe}) \cup RetryErrors :
                 JobValidate(t, reply)
          \/ \E reply \in Replies({wLIFE, tCar}) : JobIdentify(t, reply)
          \/ \E reply \in Replies({jA1, jNot}) \cup RetryErrors :
                 JobExtract(t, reply)
          \/ JobLookup(t)
          \/ JobPersist(t)
    \/ \E u \in Users, p \in PolicyIds : StatusQuery(u, p)
    \/ \E u \in Users, p \in PolicyIds, data \in SomeVerifiedData :
           VerifyBegin(u, p, data)
    \/ VerifyCommit

SpecRetry == InitRetry /\ [][NextRetry]_vars

(***************************************************************************)
(* Verifications of one extracted policy, with the full set of bodies.     *)
(***************************************************************************)
\* the policy of u1 after an extraction that succeeded at the first attempt
ExtractedDb ==
    StoreResult(
        [EmptyDb EXCEPT !.policy[1] = Some(Policy("u1", [size |-> 5]))], 1,
        FALSE, JObj(<<<<<<"a">>, JNum(<<"1">>)>>, <<kInsuranceType, JStr(wLIFE)>>>>))
ExtractedJob ==
    [NoJob EXCEPT !.pc = "done", !.retry_delay = InitialRetryDelay,
                  !.uploads = 1,
                  !.queries = <<"validate", "identify", "extract">>,
                  !.type_reply = wLIFE, !.insurance_type = wLIFE,
                  !.extracted_data =
                      ExtractedDb.extracted_document[1][1].structured_data]

InitVerify ==
    /\ db = ExtractedDb
    /\ job = [t \in JobIds |->
                IF t \in PolicyIds THEN ExtractedJob ELSE NoJob]
    /\ vreq = None
    /\ dreq = None
    /\ resp = Response("upload", 201, "PENDING", None)
    /\ commits = {}
    /\ rtext = <<>>
    /\ rout = NoResult
    /\ otp = NoOtp

NextVerify ==
    \/ \E u \in Users, p \in PolicyIds, data \in VerifiedData :
           VerifyBegin(u, p, data)
    \/ VerifyCommit

SpecVerify == InitVerify /\ [][NextVerify]_vars

(***************************************************************************)
(* List queries over several extracted policies while verifications commit.*)
(***************************************************************************)
MaxListed == 3
ListIds == 1..MaxListed
\* the last policy is of u2 and still being processed; the others are of
\* u1 and extracted
ListPolicy(p) ==
    IF p = MaxListed
    THEN [Policy("u2", [size |-> 5]) EXCEPT !.ai_extraction_status = "PROCESSING"]
    ELSE Row(ExtractedDb, 1)
ListDb ==
    [t \in DOMAIN EmptyDb |->
        [p \in ListIds |->
            CASE t = "policy" -> Some(ListPolicy(p))
              [] t = "extracted_document" ->
                     IF p = MaxListed THEN None
                     ELSE ExtractedDb.extracted_document[1]
              [] OTHER -> EmptyDb[t][1]]]

\* bodies whose insurance_type is one of the three categories, another
\* word, a different spelling, null or absent
ListBodies ==
    {Basic(t) : t \in {"LIFE", "HEALTH", "MOTOR", "TRAVEL", "Health", NULL}}
    \cup {[policy_number |-> "PN-2", coverage |-> covFull]}

InitList ==
    /\ db = ListDb
    /\ job = [t \in JobIds |-> NoJob]
    /\ vreq = None
    /\ dreq = None
    /\ resp = NoResponse
    /\ commits = {}
    /\ rtext = <<>>
    /\ rout = NoResult
    /\ otp = NoOtp

NextList ==
    \/ \E u \in Users, p \in ListIds, data \in ListBodies :
           VerifyBegin(u, p, data)
    \/ VerifyCommit
    \/ \E u \in Users, f \in ListFilters : ListQuery(u, f)

SpecList == InitList /\ [][NextList]_vars

(***************************************************************************)
(* An extracted policy with verifications, status and detail queries and a *)
(* second call of process_policy_extraction_background for it.             *)
(***************************************************************************)
InitRerun ==
    /\ db = ExtractedDb
    /\ job = [t \in JobIds |->
                IF t \in PolicyIds THEN ExtractedJob
                ELSE [NoJob EXCEPT !.pc = "start"]]
    /\ vreq = None
    /\ dreq = None
    /\ resp = Response("upload", 201, "PENDING", None)
    /\ commits = {}
    /\ rtext = <<>>
    /\ rout = NoResult
    /\ otp = NoOtp

NextRerun ==
    \/ \E t \in JobIds \ PolicyIds :
          \/ JobStart(t)
          \/ JobRead(t)
          \/ \E outcome \in {Uploaded, OtherError(eDenied)} :
                 JobUploadAttempt(t, outcome)
          \/ \E reply \in Replies({wVALID}) : JobValidate(t, reply)
          \/ \E reply \in Replies({wLIFE}) : JobIdentify(t, reply)
          \/ \E reply \in Replies({jA1}) \cup RetryErrors :
                 JobExtract(t, reply)
          \/ JobLookup(t)
          \/ JobPersist(t)
    \/ \E u \in Users, p \in PolicyIds : StatusQuery(u, p)
    \/ \E u \in Users, p \in PolicyIds, data \in SomeVerifiedData :
           VerifyBegin(u, p, data)
    \/ VerifyCommit
    \/ \E u \in Users, p \in PolicyIds : DetailBegin(u, p)
    \/ DetailPrefetch

SpecRerun == InitRerun /\ [][NextRerun]_vars

(***************************************************************************)
(* Detail reads of one verified policy while verifications commit.         *)
(***************************************************************************)
readA == Basic("LIFE") @@ [nominees |-> <<nomAsha>>]
readB == [Basic("LIFE") EXCEPT
             !.coverage = [sum_assured |-> "100", premium_amount |-> "60"]]
         @@ [nominees |-> <<nomRavi>>]
\* bodies that set the coverage and replace the nominees
ReadBodies == {readA, readB}

\* the database after a verification of the extracted policy with the body
CommittedDb(data) ==
    VerifyTransaction(ExtractedDb, Row(ExtractedDb, 1), 1, data).db

InitRead ==
    /\ db = CommittedDb(readA)
    /\ job = [t \in JobIds |->
                IF t \in PolicyIds THEN ExtractedJob ELSE NoJob]
    /\ vreq = None
    /\ dreq = None
    /\ resp = Response("verify", 200, NULL, None)
    /\ commits = {1}
    /\ rtext = <<>>
    /\ rout = NoResult
    /\ otp = NoOtp

NextRead ==
    \/ \E u \in Users, p \in PolicyIds, data \in ReadBodies :
           VerifyBegin(u, p, data)
    \/ VerifyCommit
    \/ \E u \in Users, p \in PolicyIds : DetailBegin(u, p)
    \/ DetailPrefetch

SpecRead == InitRead /\ [][NextRead]_vars

(***************************************************************************)
(* The interpreters of the model's replies, applied to one reply text.     *)
(***************************************************************************)
ApplyValidate ==
    /\ rout.op = "none"
    /\ rout' = [op |-> "validate", res |-> _validate_insurance_document(rtext)]
    /\ UNCHANGED <<db, job, vreq, dreq, resp, commits, rtext, otp>>

ApplyIdentify ==
    /\ rout.op = "none"
    /\ rout' = [op |-> "identify",
                res |-> [ok |-> TRUE, val |-> _identify_insurance_type(rtext)]]
    /\ UNCHANGED <<db, job, vreq, dreq, resp, commits, rtext, otp>>

ApplyParse ==
    /\ rout.op = "none"
    /\ rout' = [op |-> "parse", res |-> _parse_json_response(rtext)]
    /\ UNCHANGED <<db, job, vreq, dreq, resp, commits, rtext, otp>>

InitText ==
    /\ db = EmptyDb
    /\ job = [t \in JobIds |-> NoJob]
    /\ vreq = None
    /\ dreq = None
    /\ resp = NoResponse
    /\ commits = {}
    /\ rtext \in JsonReplies \cup ValidityReplies \cup TypeReplies
    /\ rout = NoResult
    /\ otp = NoOtp

NextText == ApplyValidate \/ ApplyIdentify \/ ApplyParse

SpecText == InitText /\ [][NextText]_vars

(***************************************************************************)
(* The premium normalization, applied to one amount and one frequency.     *)
(***************************************************************************)
\* a premium_amount column value: max_digits=10, decimal_places=2
\* (models.py:97)
Rupees(coef) == Dec(coef \o <<0, 0>>, -2)
PremiumAmounts ==
    {NoAmount, Dec(<<0>>, -2), Rupees(<<1, 2, 0, 0>>), Rupees(<<3, 0, 0>>),
     Rupees(<<6, 0, 0>>), Rupees(<<1, 0, 0>>), Rupees(<<1, 0, 0, 0>>),
     Rupees(<<1, 2, 0, 0, 0>>), Rupees(<<7>>), Dec(<<1>>, -2),
     Dec(<<2, 5, 0, 5, 0>>, -2), Dec(<<2, 0, 0, 0, 0, 5>>, -2),
     Dec(<<9, 9, 9, 9, 9, 9, 9, 9, 9, 9>>, -2)}
\* premium_frequency column values (models.py:98-103 puts no constraint on
\* what is saved)
PremiumFrequencies ==
    {"MONTHLY", "QUARTERLY", "HALF_YEARLY", "YEARLY", "ANNUAL", "yearly", "",
     NULL}

ApplyConvert ==
    /\ rout.op = "none"
    /\ rout' = [op |-> "monthly",
                res |-> [ok |-> TRUE,
                         val |-> _convert_to_monthly_premium(
                                     rtext.amount, rtext.frequency)]]
    /\ UNCHANGED <<db, job, vreq, dreq, resp, commits, rtext, otp>>

InitPremium ==
    /\ db = EmptyDb
    /\ job = [t \in JobIds |-> NoJob]
    /\ vreq = None
    /\ dreq = None
    /\ resp = NoResponse
    /\ commits = {}
    /\ rtext \in [amount : PremiumAmounts, frequency : PremiumFrequencies]
    /\ rout = NoResult
    /\ otp = NoOtp

NextPremium == ApplyConvert

SpecPremium == InitPremium /\ [][NextPremium]_vars

(***************************************************************************)
(* OTP requests and verify requests served by concurrent workers.          *)
(***************************************************************************)
InitOtp ==
    /\ db = EmptyDb
    /\ job = [t \in JobIds |-> NoJob]
    /\ vreq = None
    /\ dreq = None
    /\ resp = NoResponse
    /\ commits = {}
    /\ rtext = <<>>
    /\ rout = NoResult
    /\ otp = NoOtp

NextOtp ==
    \/ \E phone \in Phones : OTPRequest(phone, "111111")
    \/ \E o \in OtpIds : OTPExpire(o)
    \/ \E s \in Workers, phone \in Phones, code \in Codes :
           OTPVerifyBegin(s, phone, code)
    \/ \E s \in Workers : OTPVerifyFinish(s)

SpecOtp == InitOtp /\ [][NextOtp]_vars

(***************************************************************************)
(* Properties.                                                             *)
(***************************************************************************)
Moves == {<<"PENDING", "PROCESSING">>, <<"PROCESSING", "COMPLETED">>,
          <<"PROCESSING", "FAILED">>}
Settled == {"COMPLETED", "FAILED"}
InSeq(s, x) == \E i \in 1..Len(s) : s[i] = x

\* C1: a policy starts PENDING, and every step either leaves its
\* ai_extraction_status alone or moves it PENDING -> PROCESSING,
\* PROCESSING -> COMPLETED or PROCESSING -> FAILED; so nothing leaves
\* COMPLETED or FAILED and nothing moves backwards, whatever the interleaving
\* of uploads, job steps, status queries and verifications.
StatusOnlyMovesForward ==
    [][\A p \in PolicyIds :
          /\ (~Exists(db, p) /\ Exists(db', p)) => Status(db', p) = "PENDING"
          /\ Exists(db, p) =>
                /\ Exists(db', p)
                /\ \/ Status(db', p) = Status(db, p)
                   \/ <<Status(db, p), Status(db', p)>> \in Moves]_vars

\* a verification has committed on a policy whose job ended COMPLETED
VerifiedAfterCompleted ==
    \E p \in PolicyIds :
        /\ Exists(db, p) /\ Status(db, p) = "COMPLETED"
        /\ job[p].pc = "done" /\ p \in commits

\* C2: a policy with is_verified_by_user = true has ai_extraction_status
\* COMPLETED and at least one committed verification transaction.
VerifiedImpliesCompleted ==
    \A p \in PolicyIds :
        (Exists(db, p) /\ Row(db, p).is_verified_by_user) =>
            (Status(db, p) = "COMPLETED" /\ p \in commits)

\* the verification endpoint has just answered 200 for a policy now verified
VerifiedPolicyServed ==
    /\ resp.view = "verify" /\ resp.code = 200
    /\ \E p \in PolicyIds : Exists(db, p) /\ Row(db, p).is_verified_by_user

\* the step that runs the transaction of the verification being served
CommitStep == vreq # None /\ vreq' = None

\* the body holds a named benefit entry whose benefit_type is null
HasUnsavableBenefit(data) ==
    /\ Has(data, "benefits")
    /\ \E i \in 1..Len(data.benefits) :
          /\ Has(data.benefits[i], "name") /\ data.benefits[i].name # ""
          /\ Has(data.benefits[i], "benefit_type")
          /\ data.benefits[i].benefit_type = NULL

\* C3: a verification commit either answers 200 or answers 500 and leaves
\* the whole database as it was before the call (no policy field, coverage,
\* nominee, benefit, exclusion, health or motor row of it stays); a body
\* whose benefit list holds a row that cannot be saved is answered 500.
FailedCommitChangesNothing ==
    [][CommitStep =>
          /\ resp'.code \in {200, 500}
          /\ (resp'.code = 500 => (db' = db /\ commits' = commits))
          /\ (HasUnsavableBenefit(vreq[1].data) => resp'.code = 500)]_vars

\* a commit has failed on a policy that holds rows of an earlier commit
FailedCommitAfterEarlierCommit ==
    /\ resp.view = "verify" /\ resp.code = 500
    /\ commits # {}
    /\ \E p \in PolicyIds : db.benefits[p] # <<>> /\ db.coverage[p] # None

\* the entries of a submitted list that carry a non-empty name / title
Named(entries, key) ==
    SelectSeq(entries, LAMBDA e : Has(e, key) /\ e[key] \notin {NULL, ""})
\* the names / titles of a sequence of rows or entries
Names(rows, key) == [i \in 1..Len(rows) |-> rows[i][key]]
\* the submitted list, empty when the key is absent
Submitted(data, key) == IF Has(data, key) THEN data[key] ELSE <<>>
\* the stored rows are one row per named entry, in order
OneRowPerNamedEntry(rows, entries, key) ==
    Names(rows, key) = Names(Named(entries, key), key)

\* C4: after every successful commit each of the three collections holds
\* exactly one row per named entry of the submitted list, whatever it held
\* before, and no row when the list is empty or absent.
AlwaysReplacedWholesale ==
    [][(CommitStep /\ resp'.code = 200) =>
          LET data == vreq[1].data
              p == vreq[1].id
          IN /\ OneRowPerNamedEntry(db'.nominees[p],
                                    Submitted(data, "nominees"), "name")
             /\ OneRowPerNamedEntry(db'.benefits[p],
                                    Submitted(data, "benefits"), "name")
             /\ OneRowPerNamedEntry(db'.exclusions[p],
                                    Submitted(data, "exclusions"), "title")]_vars

\* C5: under fair scheduling of the extraction thread, every uploaded
\* policy eventually reaches COMPLETED or FAILED.
EveryUploadSettles ==
    \A p \in PolicyIds :
        Exists(db, p) ~> (Exists(db, p) /\ Status(db, p) \in Settled)

\* a job whose every upload attempt raised has ended FAILED
FailedAfterEveryUploadFailed ==
    \E p \in PolicyIds :
        /\ Exists(db, p) /\ Status(db, p) = "FAILED"
        /\ job[p].uploads = max_retries
        /\ job[p].last_upload.exc = "Exception"

\* C6: a job makes at most 5 upload calls, whatever the mix of broken-pipe
\* and other transient errors; once the 5th call has failed the job is over,
\* the status is FAILED with a non-empty error text, and the Policy row
\* still exists with its document.
AtMostFiveUploads ==
    \A p \in PolicyIds :
        /\ job[p].uploads <= 5
        /\ (job[p].uploads = 5 /\ job[p].last_upload.exc # "none") =>
              /\ job[p].pc = "done"
              /\ Exists(db, p)
              /\ Status(db, p) = "FAILED"
              /\ Row(db, p).ai_extraction_error.len > 0
              /\ Row(db, p).document.size \in DocSizes

\* five upload calls, broken pipes among them, each wait doubling the delay
GaveUpAfterFiveBrokenPipes ==
    \E p \in PolicyIds :
        /\ job[p].uploads = 5 /\ job[p].sleeps = 4
        /\ job[p].last_upload = BrokenPipe
        /\ job[p].retry_delay > MaxRetryDelay
        /\ Exists(db, p)
        /\ Row(db, p).ai_extraction_error.kind = "UploadGaveUp"

\* the text of an upload error that names no transient condition
NamesNoTransientCondition(text) ==
    /\ ~HasSub(Lower(text), <<"5", "0", "3">>)
    /\ ~HasSub(Lower(text), Lower(eTemporarily))
    /\ ~HasSub(Lower(text), SubSeq(eAssign, 19, Len(eAssign)))

\* C7: when the latest upload call raised an error that is not a broken
\* pipe and whose text names no transient condition, the job is over and
\* FAILED: no upload call and no backoff wait followed it (every earlier
\* failed call was followed by one wait, this one by none).
NonTransientFailsAtOnce ==
    \A p \in PolicyIds :
        (/\ job[p].last_upload.exc = "Exception"
         /\ NamesNoTransientCondition(job[p].last_upload.text)) =>
            /\ job[p].pc = "done"
            /\ job[p].sleeps = job[p].uploads - 1
            /\ Status(db, p) = "FAILED"
            /\ Row(db, p).ai_extraction_error.kind = "UploadFailed"
            /\ Row(db, p).ai_extraction_error.detail = job[p].last_upload.text

\* a non-transient error on the third call, after two transient ones
DeniedOnThirdUpload ==
    \E p \in PolicyIds :
        /\ job[p].last_upload = OtherError(eDenied)
        /\ job[p].uploads = 3 /\ job[p].sleeps = 2
        /\ job[p].pc = "done"

\* C8: once the type query has returned a text that is, after trimming and
\* upper-casing, none of LIFE, HEALTH, MOTOR, the job is over and FAILED with
\* the category-rejection error, no schema-extraction query was sent and the
\* policy has no ExtractedDocument.
UnsupportedCategoryRejected ==
    \A p \in PolicyIds :
        (/\ job[p].insurance_type # <<>>
         /\ Upper(Strip(job[p].type_reply)) \notin {wLIFE, wHEALTH, wMOTOR}) =>
            /\ job[p].pc = "done"
            /\ Status(db, p) = "FAILED"
            /\ Row(db, p).ai_extraction_error.kind = "UnsupportedCategory"
            /\ ~InSeq(job[p].queries, "extract")
            /\ db.extracted_document[p] = None

\* the type query answered CAR and the job has ended
CarReplyRejected ==
    \E p \in PolicyIds :
        /\ job[p].type_reply = tCar
        /\ job[p].queries = <<"validate", "identify">>
        /\ Exists(db, p) /\ Status(db, p) = "FAILED"

\* C9: the validity check accepts only the reply VALID (trimmed, in any
\* case); a reply INVALID with a reason after a colon is rejected with that
\* reason; every other reply is rejected with the generic reason.
AcceptsOnlyExactlyValid ==
    (rout.op = "validate") =>
        LET reply == Strip(rtext) IN
        IF Upper(reply) = wVALID THEN rout.res.is_valid
        ELSE IF StartsWith(Upper(reply), wINVALID \o <<":">>)
        THEN /\ ~rout.res.is_valid
             /\ rout.res.kind = "InvalidDocument"
             /\ rout.res.reason = Strip(SubSeq(reply, 9, Len(reply)))
        ELSE ~rout.res.is_valid /\ rout.res.kind = "Unverifiable"

\* the text with its code fence removed: a leading fence, with or without
\* the word json, and a trailing fence, around trimmed text
Unfenced(text) ==
    LET t == Strip(text)
        head == IF StartsWith(t, wFenceJson) THEN 7
                ELSE IF StartsWith(t, wFence) THEN 3 ELSE 0
        u == SubSeq(t, head + 1, Len(t))
        tail == IF EndsWith(u, wFence) THEN 3 ELSE 0
    IN Strip(SubSeq(u, 1, Len(u) - tail))

\* position k of t lies in a trailing comma: a comma, then only whitespace,
\* then a closing brace or bracket
InTrailingComma(t, k) ==
    \E i \in 1..k, j \in (k + 1)..Len(t) :
        /\ t[i] = ","
        /\ t[j] \in {"}", "]"}
        /\ \A q \in (i + 1)..(j - 1) : t[q] \in Whitespace

\* the text without its trailing commas
WithoutTrailingCommas(t) ==
    LET kept[k \in 0..Len(t)] ==
            IF k = 0 THEN <<>>
            ELSE IF InTrailingComma(t, k) THEN kept[k - 1]
            ELSE Append(kept[k - 1], t[k])
    IN kept[Len(t)]

\* {"a": 1}
ValueA1 == JObj(<<<<<<"a">>, JNum(<<"1">>)>>>>)

\* C10: the parser returns the value of the raw text when that is valid
\* JSON, else the value of the text without fence and trailing commas when
\* that is valid JSON, and raises in every other case; {"a":1,} fenced and
\* unfenced parse to {"a": 1}, and 'not json at all' raises.
ParsesExactlyStrictJson ==
    (rout.op = "parse") =>
        LET raw == json_loads(rtext)
            cleaned == json_loads(WithoutTrailingCommas(Unfenced(rtext)))
        IN /\ IF raw.ok THEN rout.res = [ok |-> TRUE, val |-> raw.val]
              ELSE IF cleaned.ok
              THEN rout.res = [ok |-> TRUE, val |-> cleaned.val]
              ELSE ~rout.res.ok
           /\ rtext \in {jA1c, pJson \o jA1c \o sFence} =>
                  rout.res = [ok |-> TRUE, val |-> ValueA1]
           /\ rtext = jNot => ~rout.res.ok

\* the fenced {"a":1,} has been parsed to {"a": 1}
FencedTrailingCommaParsed ==
    /\ rout.op = "parse"
    /\ rtext = pJson \o jA1c \o sFence
    /\ rout.res.ok /\ rout.res.val = ValueA1

\* C11: a policy whose document is larger than 20 MB never gets an upload
\* call or a query to the model, and once its job is over the status is
\* FAILED, with the size-limit error whenever the job could read the
\* document.
OversizedNeverReachesModel ==
    \A p \in PolicyIds :
        (Exists(db, p) /\ Row(db, p).document.size > 20) =>
            /\ job[p].uploads = 0
            /\ job[p].queries = <<>>
            /\ job[p].pc \in {"start", "read", "done"}
            /\ job[p].pc = "done" =>
                  /\ Status(db, p) = "FAILED"
                  /\ Row(db, p).ai_extraction_error.len > 0
                  /\ job[p].raised # StorageError =>
                         Row(db, p).ai_extraction_error.kind = "TooLarge"

\* the job of a 25 MB document has ended at the size check
OversizedRejected ==
    \E p \in PolicyIds :
        /\ Exists(db, p) /\ Row(db, p).document.size = 25
        /\ job[p].pc = "done" /\ job[p].uploads = 0
        /\ job[p].raised.kind = "TooLarge"
        /\ Status(db, p) = "FAILED"

\* C12: a verification request of the owner for a policy in PENDING,
\* PROCESSING or FAILED is answered 400 and leaves the database, the set of
\* commits and the request in service as they were; and the transaction of
\* a verification only ever runs on a policy in COMPLETED.
NotReadyRejected ==
    [][/\ \A u \in Users, p \in PolicyIds, data \in SomeVerifiedData :
             (/\ VerifyBegin(u, p, data)
              /\ Exists(db, p) /\ Row(db, p).user = u
              /\ Status(db, p) \in {"PENDING", "PROCESSING", "FAILED"}) =>
                 /\ resp' = Response("verify", 400, NULL, None)
                 /\ db' = db /\ commits' = commits /\ vreq' = None
       /\ CommitStep => Status(db, vreq[1].id) = "COMPLETED"]_vars

\* a verification was refused on a policy whose extraction has failed
NotReadyAnswered ==
    /\ resp = Response("verify", 400, NULL, None)
    /\ \E p \in PolicyIds :
          /\ Exists(db, p) /\ Status(db, p) = "FAILED"
          /\ db.coverage[p] = None /\ ~Row(db, p).is_verified_by_user

\* C13: a status response carries extracted data only when the status it
\* reports is COMPLETED, also when an ExtractedDocument of an earlier run
\* exists while the policy is PROCESSING or FAILED again.
DataOnlyWhenCompleted ==
    (resp.view = "status" /\ resp.data # None) =>
        (resp.code = 200 /\ resp.status = "COMPLETED")

\* a status query answered FAILED without data for a policy that holds an
\* ExtractedDocument
FailedWithheldData ==
    /\ resp.view = "status" /\ resp.status = "FAILED" /\ resp.data = None
    /\ \E p \in PolicyIds :
          Status(db, p) = "FAILED" /\ db.extracted_document[p] # <<>>

\* C14: a status query, a verification request and a detail query of a
\* caller who does not own the policy get the 404 answer of that endpoint,
\* the same whether the policy exists or not, and change nothing else.
ForeignLooksMissing ==
    [][\A u \in Users, p \in PolicyIds :
          ~(Exists(db, p) /\ Row(db, p).user = u) =>
             /\ StatusQuery(u, p) =>
                   resp' = Response("status", 404, NULL, None)
             /\ (\E data \in SomeVerifiedData : VerifyBegin(u, p, data)) =>
                   resp' = Response("verify", 404, NULL, None)
             /\ DetailBegin(u, p) =>
                   resp' = Response("detail", 404, NULL, None)
             /\ (\/ StatusQuery(u, p)
                 \/ \E data \in SomeVerifiedData : VerifyBegin(u, p, data)
                 \/ DetailBegin(u, p)) =>
                   UNCHANGED <<db, job, vreq, dreq, commits, otp>>]_vars

\* another user's detail query was answered 404 for a policy that exists
\* and is verified
ForeignDetailNotFound ==
    /\ resp = Response("detail", 404, NULL, None)
    /\ \E p \in PolicyIds : Exists(db, p) /\ Row(db, p).is_verified_by_user

\* C15: a detail query that finishes answers 200 with the record when the
\* Policy row it read is verified, and 403 without data when it is not,
\* whatever the extraction status; a 200 is only ever given for a policy
\* that is verified.
DetailOnlyWhenVerified ==
    [][(dreq # None /\ dreq' = None) =>
          /\ IF dreq[1].policy.is_verified_by_user
             THEN resp'.code = 200 /\ resp'.data # None
             ELSE resp' = Response("detail", 403, NULL, None)
          /\ resp'.code = 200 =>
                Row(db', dreq[1].id).is_verified_by_user]_vars

\* the owner's detail query was refused for an extracted, unverified policy
UnverifiedDetailRefused ==
    /\ resp = Response("detail", 403, NULL, None)
    /\ \E p \in PolicyIds :
          /\ Exists(db, p) /\ Status(db, p) = "COMPLETED"
          /\ ~Row(db, p).is_verified_by_user /\ vreq = None

\* C16: with two extraction threads on one policy, in every interleaving,
\* the policy has at most one ExtractedDocument row.
AtMostOneExtractedDocument ==
    \A p \in PolicyIds : Len(db.extracted_document[p]) <= 1

\* both threads looked up the row before either had stored one, and both
\* have stored their result
BothThreadsStored ==
    /\ \A t \in JobIds :
          /\ job[t].pc = "done" /\ job[t].raised = NoError
          /\ ~job[t].found
    /\ Len(db.extracted_document[1]) = 1

\* C17: the record a detail query answers with is the record of one
\* committed state of the database; here every commit sets the coverage and
\* replaces the nominees, so the committed states are the ones the bodies
\* produce, and a record with the coverage of one body and the nominees of
\* another is a mix of two of them.
ReadsOneCommittedState ==
    (resp.view = "detail" /\ resp.code = 200) =>
        \E data \in ReadBodies :
            resp.data =
                Some(PolicyDetailSerializer(Loaded(CommittedDb(data), 1)))

\* the columns of Policy the extraction job writes
ExtractionFields ==
    {"ai_extraction_status", "ai_extracted_at", "ai_extraction_error"}

\* C18: a step of an extraction thread keeps the Policy row, changes none
\* of its columns but ai_extraction_status, ai_extracted_at and
\* ai_extraction_error, and changes no table but ExtractedDocument; when the
\* thread ends with an exception the policy is FAILED with its document.
JobChangesOnlyExtractionFields ==
    [][\A t \in JobIds :
          (job'[t] # job[t] /\ Exists(db, policy_id(t))) =>
             LET p == policy_id(t) IN
             /\ Exists(db', p)
             /\ \A f \in DOMAIN Row(db, p) \ ExtractionFields :
                   Row(db', p)[f] = Row(db, p)[f]
             /\ \A table \in DOMAIN db \ {"policy", "extracted_document"} :
                   db'[table] = db[table]
             /\ (job'[t].pc = "done" /\ job'[t].raised # NoError) =>
                   /\ Status(db', p) = "FAILED"
                   /\ Row(db', p).document = Row(db, p).document]_vars

\* the second thread has failed on a policy that is verified and holds
\* nominee rows
RetryFailedOnVerifiedPolicy ==
    /\ job[1 + MaxPolicies].pc = "done"
    /\ job[1 + MaxPolicies].raised # NoError
    /\ Status(db, 1) = "FAILED"
    /\ Row(db, 1).is_verified_by_user
    /\ db.nominees[1] # <<>>

\* the text names a rate limit or a quota
RateLimitSignature(text) ==
    \/ HasSub(text, <<"4", "2", "9">>)
    \/ HasSub(Lower(text), <<"q", "u", "o", "t", "a">>)
    \/ HasSub(Lower(text), <<"r", "a", "t", "e", " ", "l", "i", "m", "i", "t">>)

\* C19: when a job has failed with an error of the model whose text names a
\* rate limit or quota, the error recorded on the policy differs from the
\* one recorded for any error of the model that names none.
RateLimitDistinguishable ==
    \A p \in PolicyIds :
        (/\ Exists(db, p) /\ Status(db, p) = "FAILED"
         /\ job[p].raised.kind = "ModelError"
         /\ RateLimitSignature(job[p].raised.detail)) =>
            \A e \in ModelErrors :
                ~RateLimitSignature(e.text) =>
                    Row(db, p).ai_extraction_error # Truncate(ModelError(e))

\* C20: a successful commit of a HEALTH body whose health_details hold a
\* covered_members list leaves exactly one CoveredMember row per named entry
\* of that list; with the list [Asha, Spouse, 34] that is one row with those
\* values on a verified policy.
MembersAlwaysReplaced ==
    [][(/\ CommitStep /\ resp'.code = 200
        /\ Get(vreq[1].data, "insurance_type", NULL) = "HEALTH"
        /\ Has(vreq[1].data, "health_details")
        /\ Has(vreq[1].data.health_details, "covered_members")) =>
          LET p == vreq[1].id
              members == vreq[1].data.health_details.covered_members
          IN /\ Row(db', p).is_verified_by_user
             /\ OneRowPerNamedEntry(db'.covered_members[p], members, "name")
             /\ members = <<memAsha>> =>
                   db'.covered_members[p] =
                       <<[name |-> "Asha", relationship |-> "Spouse",
                          age |-> "34", date_of_birth |-> NULL]>>]_vars

\* C21: after any sequence of verification commits, a HealthInsuranceDetails
\* row exists for a policy only if its insurance_type is HEALTH, and a
\* MotorInsuranceDetails row only if its insurance_type is MOTOR.
TypeSpecificRowsMatchType ==
    \A p \in PolicyIds :
        Exists(db, p) =>
            /\ db.health_details[p] # None =>
                   Row(db, p).insurance_type = "HEALTH"
            /\ db.motor_details[p] # None =>
                   Row(db, p).insurance_type = "MOTOR"

\* the keys whose values the committer passes through _to_decimal
NumericKeys == {"sum_assured", "premium_amount", "maturity_amount",
                "allocation_percentage", "coverage_amount",
                "room_rent_limit", "idv"}
\* the entry with every numeric value replaced by a number
WithNumber(entry) ==
    [k \in DOMAIN entry |-> IF k \in NumericKeys THEN "100" ELSE entry[k]]
\* the body with every numeric value replaced by a number
WithNumbers(data) ==
    [k \in DOMAIN data |->
        CASE k \in {"coverage", "health_details", "motor_details"} ->
                 WithNumber(data[k])
          [] k \in {"nominees", "benefits"} ->
                 [i \in 1..Len(data[k]) |-> WithNumber(data[k][i])]
          [] OTHER -> data[k]]

\* C22: a null, empty or non-numeric value of a numeric field is stored as
\* null and alone never makes the commit fail (a commit that succeeds with
\* numbers in the numeric fields succeeds with any values in them); a date
\* that is null, 'null' or not YYYY-MM-DD is stored as null.
BadNumberNeverFailsCommit ==
    [][CommitStep =>
          LET r == vreq[1]
              coverage == Get(r.data, "coverage", <<>>)
              sum_assured == Get(coverage, "sum_assured", NULL)
              end_date == Get(coverage, "end_date", NULL)
          IN /\ VerifyTransaction(db, r.policy, r.id, WithNumbers(r.data)).ok
                    => resp'.code = 200
             /\ resp'.code = 200 =>
                    /\ sum_assured \notin DecimalStrings =>
                           db'.coverage[r.id][1].sum_assured = NULL
                    /\ end_date \notin ISODates =>
                           db'.coverage[r.id][1].end_date = NULL]_vars

\* the number of entries of the four buckets that carry the id p
Occurrences(buckets, p) ==
    LET count(key) == Cardinality({i \in 1..Len(buckets[key]) :
                                      buckets[key][i].id = p})
    IN count("life") + count("health") + count("motor") + count("unprocessed")
\* the bucket holds an entry with the id p
InBucket(buckets, key, p) ==
    \E i \in 1..Len(buckets[key]) : buckets[key][i].id = p
\* the bucket named after an insurance type
BucketOf(insurance_type) ==
    CASE insurance_type = "LIFE" -> "life"
      [] insurance_type = "HEALTH" -> "health"
      [] insurance_type = "MOTOR" -> "motor"
      [] OTHER -> "unprocessed"

\* C23: an unfiltered list response holds every active policy of the
\* caller exactly once over the buckets life, health, motor, unprocessed (a
\* verified policy in the bucket of its insurance_type, every other policy
\* in unprocessed) and no policy of another user; with a category filter the
\* unprocessed bucket is the one of the unfiltered response.
EveryPolicyInOneBucket ==
    [][\A u \in Users, f \in ListFilters :
          ListQuery(u, f) =>
              LET buckets == resp'.data[1] IN
              /\ f = <<>> =>
                    \A p \in DOMAIN db.policy :
                        IF Listed(db, u, p)
                        THEN /\ Occurrences(buckets, p) = 1
                             /\ ~Row(db, p).is_verified_by_user =>
                                    InBucket(buckets, "unprocessed", p)
                             /\ (/\ Row(db, p).is_verified_by_user
                                 /\ Row(db, p).insurance_type
                                        \in {"LIFE", "HEALTH", "MOTOR"}) =>
                                    InBucket(buckets,
                                        BucketOf(Row(db, p).insurance_type), p)
                        ELSE Occurrences(buckets, p) = 0
              /\ f # <<>> =>
                    buckets.unprocessed = Buckets(db, u, <<>>).unprocessed]_vars

\* the Decimal without the trailing zeros of its coefficient
RECURSIVE Normal(_)
Normal(x) ==
    IF Len(x.coef) > 1 /\ x.coef[Len(x.coef)] = 0
    THEN Normal(Dec(SubSeq(x.coef, 1, Len(x.coef) - 1), x.exp + 1))
    ELSE IF ~Nonzero(x) THEN Dec(<<0>>, 0)
    ELSE x
\* the two Decimals are the same number
SameNumber(x, y) == Normal(x) = Normal(y)

\* m is x / d: exactly when the quotient has at most Prec digits, else
\* the Prec-digit number nearest to it
IsQuotient(m, x, d) ==
    /\ Len(m.coef) <= Prec
    /\ m.exp <= x.exp
    /\ LET dm == LongDiv(x.coef \o Zeros(x.exp - m.exp), d, 0, <<>>)
       IN IF dm.r = 0
          THEN /\ m.coef = dm.q
               /\ m.exp = x.exp \/ m.coef[Len(m.coef)] # 0
          ELSE /\ Len(m.coef) = Prec
               /\ m.coef = IF \/ 2 * dm.r > d
                              \/ 2 * dm.r = d /\ dm.q[Len(dm.q)] % 2 = 1
                           THEN Increment(dm.q) ELSE dm.q

\* C24: the monthly equivalent of a premium is the amount for MONTHLY, the
\* amount / 3 for QUARTERLY, / 6 for HALF_YEARLY, / 12 for YEARLY, and 0
\* for any other or missing frequency and for a zero or missing amount;
\* YEARLY 1200, QUARTERLY 300, HALF_YEARLY 600 and MONTHLY 100 all give 100.
MonthlyPremiumNormalized ==
    rout.op = "monthly" =>
        LET amount == rtext.amount
            frequency == rtext.frequency
            monthly == rout.res.val
            hundred == Dec(<<1>>, 2)
        IN IF ~Nonzero(amount) THEN monthly = Dec(<<0>>, 0)
           ELSE /\ frequency = "MONTHLY" => monthly = amount
                /\ frequency = "QUARTERLY" => IsQuotient(monthly, amount, 3)
                /\ frequency = "HALF_YEARLY" => IsQuotient(monthly, amount, 6)
                /\ frequency = "YEARLY" => IsQuotient(monthly, amount, 12)
                /\ frequency \notin {"MONTHLY", "QUARTERLY", "HALF_YEARLY",
                                     "YEARLY"} => monthly = Dec(<<0>>, 0)
                /\ <<amount, frequency>> \in
                       {<<Rupees(<<1, 2, 0, 0>>), "YEARLY">>,
                        <<Rupees(<<3, 0, 0>>), "QUARTERLY">>,
                        <<Rupees(<<6, 0, 0>>), "HALF_YEARLY">>,
                        <<Rupees(<<1, 0, 0>>), "MONTHLY">>} =>
                       SameNumber(monthly, hundred)

\* a yearly premium of 1000.00 has been converted: the quotient has more
\* digits than the precision
YearlyThousandConverted ==
    /\ rout.op = "monthly"
    /\ rtext = [amount |-> Rupees(<<1, 0, 0, 0>>), frequency |-> "YEARLY"]
    /\ Len(rout.res.val.coef) = Prec

\* C25: a COMPLETED policy has an ExtractedDocument, an extraction time and
\* no extraction error; a status response that reports COMPLETED carries
\* the extracted data; a FAILED policy has an error text of at most 1000
\* characters.
CompletedHasDocument ==
    /\ \A p \in PolicyIds :
          Exists(db, p) =>
              /\ Status(db, p) = "COMPLETED" =>
                     /\ db.extracted_document[p] # None
                     /\ Row(db, p).ai_extracted_at # NULL
                     /\ Row(db, p).ai_extraction_error = NoError
              /\ Status(db, p) = "FAILED" =>
                     /\ Row(db, p).ai_extraction_error # NoError
                     /\ Row(db, p).ai_extraction_error.len <= ErrorLimit
    /\ (resp.view = "status" /\ resp.status = "COMPLETED") =>
           resp.data # None

\* a status query answered COMPLETED with the data, for a policy on which
\* another run of the job had failed with a long error before
CompletedAfterLongFailure ==
    /\ resp.view = "status" /\ resp.status = "COMPLETED" /\ resp.data # None
    /\ \E t \in JobIds :
          /\ job[t].pc = "done" /\ job[t].raised.len > ErrorLimit
          /\ Status(db, policy_id(t)) = "COMPLETED"
          /\ Row(db, policy_id(t)).ai_extraction_error = NoError

\* C26: a policy that is verified stays verified in every step (commits
\* that succeed or fail, status and detail queries, steps of the extraction
\* job), and a detail query of its owner that begins once it is verified
\* reads it as verified and is answered 200, never 403.
VerifiedStaysVerified ==
    [][\A p \in PolicyIds :
          (Exists(db, p) /\ Row(db, p).is_verified_by_user) =>
              /\ Exists(db', p) /\ Row(db', p).is_verified_by_user
              /\ \A u \in Users :
                    (Owned(db, u, p) /\ DetailBegin(u, p)) =>
                        /\ dreq' # None
                        /\ dreq'[1].policy.is_verified_by_user
              /\ (/\ dreq # None /\ dreq' = None /\ dreq[1].id = p
                  /\ dreq[1].policy.is_verified_by_user) =>
                     resp'.code = 200]_vars

\* the detail of a verified policy was served after a run of the job had
\* failed on it
VerifiedServedAfterFailures ==
    /\ resp.view = "detail" /\ resp.code = 200
    /\ \E p \in PolicyIds :
          /\ Row(db, p).is_verified_by_user
          /\ Status(db, p) = "FAILED"
          /\ \E t \in JobIds : policy_id(t) = p /\ job[t].raised # NoError

\* C27: a successful verification commit is idempotent: the same body
\* committed again right after it succeeds again and leaves the policy
\* fields, coverage, nominees, benefits, exclusions, health details, covered
\* members and motor details exactly as the first commit left them.
CommitIsIdempotent ==
    [][(CommitStep /\ resp'.code = 200) =>
          LET r == vreq[1]
              again == VerifyTransaction(db', Row(db', r.id), r.id, r.data)
          IN again.ok /\ again.db = db']_vars

\* a HEALTH body with covered members has been committed on a policy that
\* holds the nominee of an earlier LIFE commit
HealthCommitAfterLifeCommit ==
    /\ resp.view = "verify" /\ resp.code = 200
    /\ \E p \in PolicyIds :
          /\ Row(db, p).insurance_type = "HEALTH"
          /\ db.health_details[p] # None
          /\ Names(db.covered_members[p], "name") = <<"Dev">>
          /\ Names(db.nominees[p], "name") = <<"Asha">>

\* C28: once the upload step has returned or raised (success, oversized
\* document, non-transient error, retries exhausted, failure while reading
\* the stored document) the temporary copy no longer exists; while the step
\* is between two attempts the copy is present.
TemporaryCopyRemoved ==
    \A t \in JobIds :
        /\ job[t].pc \in {"validate", "identify", "extract", "lookup",
                           "persist", "done"} => ~job[t].tmp_file
        /\ job[t].pc = "upload" => job[t].tmp_file

\* C29: an OTP record authenticates at most once: over all verify
\* requests, sequential or concurrent, at most one obtains tokens from it.
OtpAuthenticatesOnce ==
    \A o \in OtpIds : otp.logins[o] <= 1

\* C30: under any interleaving of verify requests no OTP record accepts
\* more than OTP_MAX_ATTEMPTS wrong codes: its attempts counter equals the
\* number of wrong codes submitted to it, that number never exceeds 5, and
\* the record is marked used once it is 5.
WrongCodesAreCounted ==
    \A o \in OtpIds :
        otp.rows[o] # None =>
            /\ otp.rows[o][1].attempts = otp.wrong[o]
            /\ otp.wrong[o] <= OTP_MAX_ATTEMPTS
            /\ otp.wrong[o] = OTP_MAX_ATTEMPTS => otp.rows[o][1].used
====
